---- MODULE Spec2Model ----
(***************************************************************************)
(* A model of the retrieval-and-extraction pipeline of MetaHelper          *)
(* (src/query_handler.py): metric discovery, normalisation, the            *)
(* locate-then-scoop extraction and the outcome table.                     *)
(*                                                                         *)
(* Python values are tagged records (PyStr, PyInt, PyList, ...), so that   *)
(* "is a string" and "is None" are things a formula can say.  A Python     *)
(* str is a sequence of one-character strings: strip, find, rfind, slicing,*)
(* lower, the substring test, json.loads and re.findall are computed on    *)
(* the characters.                                                         *)
(***************************************************************************)
EXTENDS Integers, Sequences, FiniteSets, TLC

(***************************************************************************)
(* Characters and Python str operations                                    *)
(***************************************************************************)
UpperSeq == <<"A","B","C","D","E","F","G","H","I","J","K","L","M",
              "N","O","P","Q","R","S","T","U","V","W","X","Y","Z">>

LowerSeq == <<"a","b","c","d","e","f","g","h","i","j","k","l","m",
              "n","o","p","q","r","s","t","u","v","w","x","y","z">>

DigitSeq == <<"0","1","2","3","4","5","6","7","8","9">>

Range(s) == {s[i] : i \in 1..Len(s)}

Letters == Range(UpperSeq) \cup Range(LowerSeq)

Digits == Range(DigitSeq)

Whitespace == {" ", "\n", "\t"}

IndexIn(s, c) == CHOOSE i \in 1..Len(s) : s[i] = c

\* str.lower() on one character
LowerChar(c) == IF c \in Range(UpperSeq) THEN LowerSeq[IndexIn(UpperSeq, c)] ELSE c

\* str.lower()
Lower(t) == [i \in 1..Len(t) |-> LowerChar(t[i])]

RECURSIVE LStrip(_)
LStrip(t) == IF t # <<>> /\ Head(t) \in Whitespace THEN LStrip(Tail(t)) ELSE t

RECURSIVE RStrip(_)
RStrip(t) ==
  IF t # <<>> /\ t[Len(t)] \in Whitespace THEN RStrip(SubSeq(t, 1, Len(t) - 1)) ELSE t

\* str.strip()
Strip(t) == RStrip(LStrip(t))

\* text[a:b] for 0 <= a, 0 <= b (Python's half-open, 0-based slice)
Slice(t, a, b) ==
  LET hi == IF b > Len(t) THEN Len(t) ELSE b
  IN IF a >= hi THEN <<>> ELSE SubSeq(t, a + 1, hi)

\* text.find(c): the 0-based index of the first c, or -1
Find(t, c) ==
  IF \E i \in 1..Len(t) : t[i] = c
  THEN (CHOOSE i \in 1..Len(t) : t[i] = c /\ \A j \in 1..(i - 1) : t[j] # c) - 1
  ELSE -1

\* text.rfind(c): the 0-based index of the last c, or -1
RFind(t, c) ==
  IF \E i \in 1..Len(t) : t[i] = c
  THEN (CHOOSE i \in 1..Len(t) : t[i] = c /\ \A j \in (i + 1)..Len(t) : t[j] # c) - 1
  ELSE -1

\* needle in text
Contains(t, needle) ==
  \E i \in 0..(Len(t) - Len(needle)) : SubSeq(t, i + 1, i + Len(needle)) = needle

RECURSIVE Join(_, _)
\* sep.join(parts)
Join(parts, sep) ==
  IF parts = <<>> THEN <<>>
  ELSE IF Len(parts) = 1 THEN parts[1]
  ELSE parts[1] \o sep \o Join(Tail(parts), sep)

\* the characters of the model's texts, in code point order
CodeOrder == <<"\t","\n"," ","!","\"","%","'","(",")",",","-",".","/","0","1","2","3","4",
  "5","6","7","8","9",":","A","B","C","D","E","F","G","H","I","J","K","L","M","N","O","P",
  "Q","R","S","T","U","V","W","X","Y","Z","[","]","_","a","b","c","d","e","f","g","h","i",
  "j","k","l","m","n","o","p","q","r","s","t","u","v","w","x","y","z","{","|","}">>

Ord(c) == IndexIn(CodeOrder, c)

RECURSIVE TextLess(_, _)
\* a < b for two str
TextLess(a, b) ==
  IF b = <<>> THEN FALSE
  ELSE IF a = <<>> THEN TRUE
  ELSE IF Head(a) = Head(b) THEN TextLess(Tail(a), Tail(b))
  ELSE Ord(Head(a)) < Ord(Head(b))

RECURSIVE SortedTexts(_)
\* sorted(list(S)) for a set S of str
SortedTexts(S) ==
  IF S = {} THEN <<>>
  ELSE LET least == CHOOSE a \in S : \A b \in S \ {a} : TextLess(a, b)
       IN <<least>> \o SortedTexts(S \ {least})

(***************************************************************************)
(* Python values                                                           *)
(***************************************************************************)
PyNone == [k |-> "none"]

PyBool(b) == [k |-> "bool", b |-> b]

PyInt(n) == [k |-> "int", n |-> n]

PyStr(s) == [k |-> "str", s |-> s]

PyList(items) == [k |-> "list", items |-> items]

\* a dict: its items in insertion order, each [key |-> text, val |-> value]
PyDict(items) == [k |-> "dict", items |-> items]

\* bool(v)
Truthy(v) ==
  CASE v.k = "none" -> FALSE
    [] v.k = "bool" -> v.b
    [] v.k = "int"  -> v.n # 0
    [] v.k = "str"  -> v.s # <<>>
    [] OTHER        -> v.items # <<>>

RECURSIVE NatStr(_)
\* str(n) for an int n >= 0
NatStr(n) == IF n < 10 THEN <<DigitSeq[n + 1]>> ELSE NatStr(n \div 10) \o <<DigitSeq[(n % 10) + 1]>>

RECURSIVE NatOf(_)
\* int of a run of digits
NatOf(ds) ==
  IF ds = <<>> THEN 0
  ELSE NatOf(SubSeq(ds, 1, Len(ds) - 1)) * 10 + (IndexIn(DigitSeq, ds[Len(ds)]) - 1)

HasKey(d, key) == \E i \in 1..Len(d.items) : d.items[i].key = key

\* d[key]: json.loads keeps the last value of a repeated key
DictGet(d, key) ==
  d.items[CHOOSE i \in 1..Len(d.items) :
            d.items[i].key = key /\ \A j \in (i + 1)..Len(d.items) : d.items[j].key # key].val

\* d.get(key, default)
GetOr(d, key, default) == IF HasKey(d, key) THEN DictGet(d, key) ELSE default

\* list(d.values())[0]: the value of the first key inserted
FirstValue(d) == DictGet(d, d.items[1].key)

RECURSIVE Repr(_)
RECURSIVE ReprItems(_)
RECURSIVE ReprPairs(_)
\* repr(v), which str() of a list or a dict applies to the elements
Repr(v) ==
  CASE v.k = "none" -> <<"N","o","n","e">>
    [] v.k = "bool" -> IF v.b THEN <<"T","r","u","e">> ELSE <<"F","a","l","s","e">>
    [] v.k = "int"  -> NatStr(v.n)
    [] v.k = "str"  -> <<"'">> \o v.s \o <<"'">>
    [] v.k = "list" -> <<"[">> \o ReprItems(v.items) \o <<"]">>
    [] OTHER        -> <<"{">> \o ReprPairs(v.items) \o <<"}">>

ReprItems(items) ==
  IF items = <<>> THEN <<>>
  ELSE IF Len(items) = 1 THEN Repr(items[1])
  ELSE Repr(items[1]) \o <<",", " ">> \o ReprItems(Tail(items))

ReprPairs(items) ==
  LET one(p) == <<"'">> \o p.key \o <<"'", ":", " ">> \o Repr(p.val)
  IN IF items = <<>> THEN <<>>
     ELSE IF Len(items) = 1 THEN one(items[1])
     ELSE one(items[1]) \o <<",", " ">> \o ReprPairs(Tail(items))

\* str(v)
Str(v) == IF v.k = "str" THEN v.s ELSE Repr(v)

(***************************************************************************)
(* json.loads, on the JSON of objects, arrays, strings without escapes,    *)
(* non-negative integers, true, false and null                             *)
(***************************************************************************)
ParseFail == [ok |-> FALSE, val |-> PyNone, next |-> 0]

ParseOk(v, n) == [ok |-> TRUE, val |-> v, next |-> n]

RECURSIVE SkipWs(_, _)
SkipWs(t, i) == IF i <= Len(t) /\ t[i] \in Whitespace THEN SkipWs(t, i + 1) ELSE i

StartsAt(t, i, word) == i + Len(word) - 1 <= Len(t) /\ SubSeq(t, i, i + Len(word) - 1) = word

RECURSIVE DigitsEnd(_, _)
\* the index after the run of digits starting at i
DigitsEnd(t, i) == IF i <= Len(t) /\ t[i] \in Digits THEN DigitsEnd(t, i + 1) ELSE i

ParseString(t, i) ==
  IF \E j \in (i + 1)..Len(t) : t[j] = "\""
  THEN LET j == CHOOSE j \in (i + 1)..Len(t) :
                  t[j] = "\"" /\ \A m \in (i + 1)..(j - 1) : t[m] # "\""
       IN ParseOk(PyStr(SubSeq(t, i + 1, j - 1)), j + 1)
  ELSE ParseFail

ParseNumber(t, i) ==
  LET e == IF t[i] = "0" THEN i + 1 ELSE DigitsEnd(t, i)
  IN ParseOk(PyInt(NatOf(SubSeq(t, i, e - 1))), e)

RECURSIVE ParseValue(_, _)
RECURSIVE ParseElements(_, _, _)
RECURSIVE ParseMembers(_, _, _)
\* one JSON value starting at index i (1-based) of t
ParseValue(t, i) ==
  IF i > Len(t) THEN ParseFail
  ELSE CASE t[i] = "\"" -> ParseString(t, i)
         [] t[i] \in Digits -> ParseNumber(t, i)
         [] t[i] = "[" ->
              LET j == SkipWs(t, i + 1)
              IN IF j <= Len(t) /\ t[j] = "]" THEN ParseOk(PyList(<<>>), j + 1)
                 ELSE ParseElements(t, j, <<>>)
         [] t[i] = "{" ->
              LET j == SkipWs(t, i + 1)
              IN IF j <= Len(t) /\ t[j] = "}" THEN ParseOk(PyDict(<<>>), j + 1)
                 ELSE ParseMembers(t, j, <<>>)
         [] StartsAt(t, i, <<"n","u","l","l">>) -> ParseOk(PyNone, i + 4)
         [] StartsAt(t, i, <<"t","r","u","e">>) -> ParseOk(PyBool(TRUE), i + 4)
         [] StartsAt(t, i, <<"f","a","l","s","e">>) -> ParseOk(PyBool(FALSE), i + 5)
         [] OTHER -> ParseFail

\* the elements of an array from index i, up to and including its "]"
ParseElements(t, i, acc) ==
  LET r == ParseValue(t, i)
  IN IF ~r.ok THEN ParseFail
     ELSE LET j == SkipWs(t, r.next)
          IN IF j > Len(t) THEN ParseFail
             ELSE IF t[j] = "]" THEN ParseOk(PyList(Append(acc, r.val)), j + 1)
             ELSE IF t[j] = "," THEN ParseElements(t, SkipWs(t, j + 1), Append(acc, r.val))
             ELSE ParseFail

\* the members of an object from index i, up to and including its "}"
ParseMembers(t, i, acc) ==
  IF i > Len(t) \/ t[i] # "\"" THEN ParseFail
  ELSE LET key == ParseString(t, i)
       IN IF ~key.ok THEN ParseFail
          ELSE LET c == SkipWs(t, key.next)
               IN IF c > Len(t) \/ t[c] # ":" THEN ParseFail
                  ELSE LET r == ParseValue(t, SkipWs(t, c + 1))
                       IN IF ~r.ok THEN ParseFail
                          ELSE LET j == SkipWs(t, r.next)
                                   items == Append(acc, [key |-> key.val.s, val |-> r.val])
                               IN IF j > Len(t) THEN ParseFail
                                  ELSE IF t[j] = "}" THEN ParseOk(PyDict(items), j + 1)
                                  ELSE IF t[j] = ","
                                       THEN ParseMembers(t, SkipWs(t, j + 1), items)
                                  ELSE ParseFail

\* json.loads(text): [ok |-> FALSE, ...] stands for json.JSONDecodeError
JsonLoads(t) ==
  LET r == ParseValue(t, SkipWs(t, 1))
  IN IF r.ok /\ SkipWs(t, r.next) = Len(t) + 1 THEN r ELSE ParseFail

(***************************************************************************)
(* clean_json_output                                                       *)
(***************************************************************************)
clean_json_output(text) ==
  LET t == Strip(text)
      start_index == Find(t, "{")
      end_index == RFind(t, "}")
  IN IF start_index = -1 THEN t
     ELSE IF end_index = -1 THEN t
     ELSE Slice(t, start_index, end_index + 1)

(***************************************************************************)
(* Text literals of the source, and the texts the model draws inputs from  *)
(***************************************************************************)
\* N/A
NA == <<"N","/","A">>

\* N/A (No relevant sections found)
NA_NoRelevantSections == <<"N","/","A"," ","(","N","o"," ","r","e","l","e","v","a","n","t",
  " ","s","e","c","t","i","o","n","s"," ","f","o","u","n","d",")">>

\* N/A (No data found for this metric)
NA_NoDataFound == <<"N","/","A"," ","(","N","o"," ","d","a","t","a"," ","f","o","u","n","d",
  " ","f","o","r"," ","t","h","i","s"," ","m","e","t","r","i","c",")">>

\* N/A (Value not found in text)
NA_ValueNotFound == <<"N","/","A"," ","(","V","a","l","u","e"," ","n","o","t"," ","f","o",
  "u","n","d"," ","i","n"," ","t","e","x","t",")">>

\* Vector Store not found.
S_VectorStoreNotFound == <<"V","e","c","t","o","r"," ","S","t","o","r","e"," ","n","o","t",
  " ","f","o","u","n","d",".">>

\* LLM not initialized.
S_LLMNotInitialized == <<"L","L","M"," ","n","o","t"," ","i","n","i","t","i","a","l","i",
  "z","e","d",".">>

\* Error
S_Error == <<"E","r","r","o","r">>

\* Extraction complete.
S_ExtractionComplete == <<"E","x","t","r","a","c","t","i","o","n"," ","c","o","m","p","l",
  "e","t","e",".">>

\* Extraction successful.
S_ExtractionSuccessful == <<"E","x","t","r","a","c","t","i","o","n"," ","s","u","c","c","e",
  "s","s","f","u","l",".">>

\* An error occurred during extraction: 
S_ExtractionError == <<"A","n"," ","e","r","r","o","r"," ","o","c","c","u","r","r","e","d",
  " ","d","u","r","i","n","g"," ","e","x","t","r","a","c","t","i","o","n",":"," ">>

\* exact_metric_name
K_exact_metric_name == <<"e","x","a","c","t","_","m","e","t","r","i","c","_","n","a","m","e">>

\* Outcomes
SecOutcomes == <<"O","u","t","c","o","m","e","s">>

\* Results
SecResults == <<"R","e","s","u","l","t","s">>

\* Abstract
SecAbstract == <<"A","b","s","t","r","a","c","t">>

\* Methods
SecMethods == <<"M","e","t","h","o","d","s">>

\* pmc/1
SrcA == <<"p","m","c","/","1">>

\* pmc/2
SrcB == <<"p","m","c","/","2">>

\* clinicaltrials.gov/1
SrcCT == <<"c","l","i","n","i","c","a","l","t","r","i","a","l","s",".","g","o","v","/","1">>

\* BMI 25
TextBMI == <<"B","M","I"," ","2","5">>

\* Age 40
TextAge == <<"A","g","e"," ","4","0">>

\* BMI
OutcomeBMI == <<"B","M","I">>

\* Age
OutcomeAge == <<"A","g","e">>

\* {"exact_metric_name": "Body mass"}
LocExact == <<"{","\"","e","x","a","c","t","_","m","e","t","r","i","c","_","n","a","m","e",
  "\"",":"," ","\"","B","o","d","y"," ","m","a","s","s","\"","}">>

\* {"exact_metric_name": "bmi"}
LocSameCase == <<"{","\"","e","x","a","c","t","_","m","e","t","r","i","c","_","n","a","m",
  "e","\"",":"," ","\"","b","m","i","\"","}">>

\* {"exact_metric_name": null}
LocNull == <<"{","\"","e","x","a","c","t","_","m","e","t","r","i","c","_","n","a","m","e",
  "\"",":"," ","n","u","l","l","}">>

\* {"exact_metric_name": ""}
LocEmpty == <<"{","\"","e","x","a","c","t","_","m","e","t","r","i","c","_","n","a","m","e",
  "\"",":"," ","\"","\"","}">>

\* Found: {"exact_metric_name": "Age"} .
LocProse == <<"F","o","u","n","d",":"," ","{","\"","e","x","a","c","t","_","m","e","t","r",
  "i","c","_","n","a","m","e","\"",":"," ","\"","A","g","e","\"","}"," ",".">>

\* null
LocBareNull == <<"n","u","l","l">>

\* not found
LocUnparseable == <<"n","o","t"," ","f","o","u","n","d">>

\* {"exact_metric_name": 7}
LocNumber == <<"{","\"","e","x","a","c","t","_","m","e","t","r","i","c","_","n","a","m","e",
  "\"",":"," ","7","}">>

\* {"name": "BMI"}
LocNoKey == <<"{","\"","n","a","m","e","\"",":"," ","\"","B","M","I","\"","}">>

\* | BMI | 25 |
ScoopData == <<"|"," ","B","M","I"," ","|"," ","2","5"," ","|">>

\* BMI: N/A at week 4
ScoopWithNA == <<"B","M","I",":"," ","N","/","A"," ","a","t"," ","w","e","e","k"," ","4">>

\*  \n
ScoopBlank == <<" ","\n">>

\* 
ScoopEmpty == <<>>


\* placebo_data
K_placebo_data == <<"p","l","a","c","e","b","o","_","d","a","t","a">>

\* treatment_arms
K_treatment_arms == <<"t","r","e","a","t","m","e","n","t","_","a","r","m","s">>

\* durations
K_durations == <<"d","u","r","a","t","i","o","n","s">>

\* no placebo
BadNoPlacebo == <<"n","o"," ","p","l","a","c","e","b","o">>

\* n/a
BadNA == <<"n","/","a">>

\* none
BadNone == <<"n","o","n","e">>

\* clinicaltrials.gov
CT_GOV == <<"c","l","i","n","i","c","a","l","t","r","i","a","l","s",".","g","o","v">>

\* See extracted details
SeeExtractedDetails == <<"S","e","e"," ","e","x","t","r","a","c","t","e","d"," ","d","e",
  "t","a","i","l","s">>

\* Data not found
DataNotFound == <<"D","a","t","a"," ","n","o","t"," ","f","o","u","n","d">>

\* Vector Store not found. Please add documents first.
S_TableNoStore == <<"V","e","c","t","o","r"," ","S","t","o","r","e"," ","n","o","t"," ","f",
  "o","u","n","d","."," ","P","l","e","a","s","e"," ","a","d","d"," ","d","o","c","u","m",
  "e","n","t","s"," ","f","i","r","s","t",".">>

\* No documents found in the library to analyze.
S_NoDocuments == <<"N","o"," ","d","o","c","u","m","e","n","t","s"," ","f","o","u","n","d",
  " ","i","n"," ","t","h","e"," ","l","i","b","r","a","r","y"," ","t","o"," ","a","n","a",
  "l","y","z","e",".">>

\* Could not extract data.
S_CouldNotExtract == <<"C","o","u","l","d"," ","n","o","t"," ","e","x","t","r","a","c","t",
  " ","d","a","t","a",".">>

\* Table generation complete.
S_TableComplete == <<"T","a","b","l","e"," ","g","e","n","e","r","a","t","i","o","n"," ",
  "c","o","m","p","l","e","t","e",".">>

\* {"placebo_name": "PLA", "treatment_names": ["A"]}
ClsOk == <<"{","\"","p","l","a","c","e","b","o","_","n","a","m","e","\"",":"," ","\"","P",
  "L","A","\"",","," ","\"","t","r","e","a","t","m","e","n","t","_","n","a","m","e","s",
  "\"",":"," ","[","\"","A","\"","]","}">>

\* no groups
ClsBad == <<"n","o"," ","g","r","o","u","p","s">>

\* {"placebo_data": "5.2", "treatment_arms": "A: 4.1", "durations": "12 w"}
AnaGood == <<"{","\"","p","l","a","c","e","b","o","_","d","a","t","a","\"",":"," ","\"","5",
  ".","2","\"",","," ","\"","t","r","e","a","t","m","e","n","t","_","a","r","m","s","\"",
  ":"," ","\"","A",":"," ","4",".","1","\"",","," ","\"","d","u","r","a","t","i","o","n",
  "s","\"",":"," ","\"","1","2"," ","w","\"","}">>

\* {"placebo_data": "N/A", "durations": "12 w"}
AnaNA == <<"{","\"","p","l","a","c","e","b","o","_","d","a","t","a","\"",":"," ","\"","N",
  "/","A","\"",","," ","\"","d","u","r","a","t","i","o","n","s","\"",":"," ","\"","1","2",
  " ","w","\"","}">>

\* {"placebo_data": "No placebo", "treatment_arms": "A: 4.1"}
AnaNoPlacebo == <<"{","\"","p","l","a","c","e","b","o","_","d","a","t","a","\"",":"," ",
  "\"","N","o"," ","p","l","a","c","e","b","o","\"",","," ","\"","t","r","e","a","t","m",
  "e","n","t","_","a","r","m","s","\"",":"," ","\"","A",":"," ","4",".","1","\"","}">>

\* {"treatment_arms": "A: 4.1"}
AnaMissing == <<"{","\"","t","r","e","a","t","m","e","n","t","_","a","r","m","s","\"",":",
  " ","\"","A",":"," ","4",".","1","\"","}">>

\* {"placebo_data": 5}
AnaNumber == <<"{","\"","p","l","a","c","e","b","o","_","d","a","t","a","\"",":"," ","5","}">>

\* sorry
AnaBad == <<"s","o","r","r","y">>


\* Vector Store not found in session.
S_DiscoverNoStore == <<"V","e","c","t","o","r"," ","S","t","o","r","e"," ","n","o","t"," ",
  "f","o","u","n","d"," ","i","n"," ","s","e","s","s","i","o","n",".">>

\* No text content found for this document in the vector store.
S_NoTextContent == <<"N","o"," ","t","e","x","t"," ","c","o","n","t","e","n","t"," ","f",
  "o","u","n","d"," ","f","o","r"," ","t","h","i","s"," ","d","o","c","u","m","e","n","t",
  " ","i","n"," ","t","h","e"," ","v","e","c","t","o","r"," ","s","t","o","r","e",".">>

\* Discovery successful.
S_DiscoverySuccessful == <<"D","i","s","c","o","v","e","r","y"," ","s","u","c","c","e","s",
  "s","f","u","l",".">>

\* Discovery fallback: parsed metrics from raw text.
S_DiscoveryFallback == <<"D","i","s","c","o","v","e","r","y"," ","f","a","l","l","b","a",
  "c","k",":"," ","p","a","r","s","e","d"," ","m","e","t","r","i","c","s"," ","f","r","o",
  "m"," ","r","a","w"," ","t","e","x","t",".">>

\* Discovery complete but no numeric-like metrics found.
S_DiscoveryNothing == <<"D","i","s","c","o","v","e","r","y"," ","c","o","m","p","l","e","t",
  "e"," ","b","u","t"," ","n","o"," ","n","u","m","e","r","i","c","-","l","i","k","e"," ",
  "m","e","t","r","i","c","s"," ","f","o","u","n","d",".">>

\* An error occurred during discovery: 
S_DiscoveryError == <<"A","n"," ","e","r","r","o","r"," ","o","c","c","u","r","r","e","d",
  " ","d","u","r","i","n","g"," ","d","i","s","c","o","v","e","r","y",":"," ">>

\* \n\n---\n\n
ChunkSeparator == <<"\n","\n","-","-","-","\n","\n">>

\* metrics
K_metrics == <<"m","e","t","r","i","c","s">>

\* metric
K_metric == <<"m","e","t","r","i","c">>

\* {"metrics": ["Sample Size", 42]}
DiscJson == <<"{","\"","m","e","t","r","i","c","s","\"",":"," ","[","\"","S","a","m","p",
  "l","e"," ","S","i","z","e","\"",","," ","4","2","]","}">>

\* {"metrics": [{"metric": "BMI"}, {"name": 7}, {}, ["a", 1], null]}
DiscObjects == <<"{","\"","m","e","t","r","i","c","s","\"",":"," ","[","{","\"","m","e","t",
  "r","i","c","\"",":"," ","\"","B","M","I","\"","}",","," ","{","\"","n","a","m","e","\"",
  ":"," ","7","}",","," ","{","}",","," ","[","\"","a","\"",","," ","1","]",","," ","n","u",
  "l","l","]","}">>

\* ["a1"]
DiscNotObject == <<"[","\"","a","1","\"","]">>

\* {"metrics": ["A1", {"metric": "B"}
DiscMalformed == <<"{","\"","m","e","t","r","i","c","s","\"",":"," ","[","\"","A","1","\"",
  ","," ","{","\"","m","e","t","r","i","c","\"",":"," ","\"","B","\"","}">>

\* Sample Size 42, Mean Age 5 years; BMI
DiscProse == <<"S","a","m","p","l","e"," ","S","i","z","e"," ","4","2",","," ","M","e","a",
  "n"," ","A","g","e"," ","5"," ","y","e","a","r","s",";"," ","B","M","I">>

\* The answer is {"metrics": ["Sample Size", 42]}
DiscWrapped == <<"T","h","e"," ","a","n","s","w","e","r"," ","i","s"," ","{","\"","m","e",
  "t","r","i","c","s","\"",":"," ","[","\"","S","a","m","p","l","e"," ","S","i","z","e",
  "\"",","," ","4","2","]","}">>

\* {"metrics": []}
DiscEmptyList == <<"{","\"","m","e","t","r","i","c","s","\"",":"," ","[","]","}">>

\* {"metrics": 5}
DiscNumber == <<"{","\"","m","e","t","r","i","c","s","\"",":"," ","5","}">>

\* {"metrics": "ab"}
DiscText == <<"{","\"","m","e","t","r","i","c","s","\"",":"," ","\"","a","b","\"","}">>

\* {"x 1": true}
DiscNoKey == <<"{","\"","x"," ","1","\"",":"," ","t","r","u","e","}">>


\* Vector Store is not available.
S_LibraryNoStore == <<"V","e","c","t","o","r"," ","S","t","o","r","e"," ","i","s"," ","n",
  "o","t"," ","a","v","a","i","l","a","b","l","e",".">>

\* LLM is not available.
S_LibraryNoLLM == <<"L","L","M"," ","i","s"," ","n","o","t"," ","a","v","a","i","l","a","b",
  "l","e",".">>

\* Discovery complete. No quantifiable metrics were found across any documents.
S_NoMetricsFound == <<"D","i","s","c","o","v","e","r","y"," ","c","o","m","p","l","e","t",
  "e","."," ","N","o"," ","q","u","a","n","t","i","f","i","a","b","l","e"," ","m","e","t",
  "r","i","c","s"," ","w","e","r","e"," ","f","o","u","n","d"," ","a","c","r","o","s","s",
  " ","a","n","y"," ","d","o","c","u","m","e","n","t","s",".">>

\* Metric normalization failed. Cannot proceed.
S_NormalizationFailed == <<"M","e","t","r","i","c"," ","n","o","r","m","a","l","i","z","a",
  "t","i","o","n"," ","f","a","i","l","e","d","."," ","C","a","n","n","o","t"," ","p","r",
  "o","c","e","e","d",".">>

\* Could not count any canonical metrics.
S_CouldNotCount == <<"C","o","u","l","d"," ","n","o","t"," ","c","o","u","n","t"," ","a",
  "n","y"," ","c","a","n","o","n","i","c","a","l"," ","m","e","t","r","i","c","s",".">>

\* Metric discovery and normalization complete.
S_LibraryComplete == <<"M","e","t","r","i","c"," ","d","i","s","c","o","v","e","r","y"," ",
  "a","n","d"," ","n","o","r","m","a","l","i","z","a","t","i","o","n"," ","c","o","m","p",
  "l","e","t","e",".">>

\* {"Sample Size (n)": ["Sample Size", "sample size 42"], "Body Mass Index": ["BMI", "A1", "a1"]}
NormGood == <<"{","\"","S","a","m","p","l","e"," ","S","i","z","e"," ","(","n",")","\"",":",
  " ","[","\"","S","a","m","p","l","e"," ","S","i","z","e","\"",","," ","\"","s","a","m",
  "p","l","e"," ","s","i","z","e"," ","4","2","\"","]",","," ","\"","B","o","d","y"," ","M",
  "a","s","s"," ","I","n","d","e","x","\"",":"," ","[","\"","B","M","I","\"",","," ","\"",
  "A","1","\"",","," ","\"","a","1","\"","]","}">>

\* {"Size": ["Sample Size"], "N": ["sample size", "42"]}
NormPartial == <<"{","\"","S","i","z","e","\"",":"," ","[","\"","S","a","m","p","l","e"," ",
  "S","i","z","e","\"","]",","," ","\"","N","\"",":"," ","[","\"","s","a","m","p","l","e",
  " ","s","i","z","e","\"",","," ","\"","4","2","\"","]","}">>

\* Here is the map: {"BMI": ["BMI"]}
NormProse == <<"H","e","r","e"," ","i","s"," ","t","h","e"," ","m","a","p",":"," ","{","\"",
  "B","M","I","\"",":"," ","[","\"","B","M","I","\"","]","}">>

\* {}
NormEmpty == <<"{","}">>

\* ["BMI"]
NormList == <<"[","\"","B","M","I","\"","]">>

\* {"BMI": 5}
NormBadValue == <<"{","\"","B","M","I","\"",":"," ","5","}">>

\* {"metrics": ["BMI", "Body Mass Index", "Age"]}
DiscThree == <<"{","\"","m","e","t","r","i","c","s","\"",":"," ","[","\"","B","M","I","\"",
  ","," ","\"","B","o","d","y"," ","M","a","s","s"," ","I","n","d","e","x","\"",","," ",
  "\"","A","g","e","\"","]","}">>

\* {"Baseline BMI": ["BMI", "Body Mass Index"], "Mean Age": ["Age"]}
NormTwo == <<"{","\"","B","a","s","e","l","i","n","e"," ","B","M","I","\"",":"," ","[","\"",
  "B","M","I","\"",","," ","\"","B","o","d","y"," ","M","a","s","s"," ","I","n","d","e","x",
  "\"","]",","," ","\"","M","e","a","n"," ","A","g","e","\"",":"," ","[","\"","A","g","e",
  "\"","]","}">>


\* Successfully identified relevant titles.
S_TitlesIdentified == <<"S","u","c","c","e","s","s","f","u","l","l","y"," ","i","d","e","n",
  "t","i","f","i","e","d"," ","r","e","l","e","v","a","n","t"," ","t","i","t","l","e","s",
  ".">>

\* Successfully identified relevant title.
S_TitleIdentified == <<"S","u","c","c","e","s","s","f","u","l","l","y"," ","i","d","e","n",
  "t","i","f","i","e","d"," ","r","e","l","e","v","a","n","t"," ","t","i","t","l","e",".">>

\* Used fuzzy matching fallback.
S_UsedFuzzy == <<"U","s","e","d"," ","f","u","z","z","y"," ","m","a","t","c","h","i","n",
  "g"," ","f","a","l","l","b","a","c","k",".">>

\* Used keyword matching fallback.
S_UsedKeyword == <<"U","s","e","d"," ","k","e","y","w","o","r","d"," ","m","a","t","c","h",
  "i","n","g"," ","f","a","l","l","b","a","c","k",".">>

\* Could not identify any relevant titles.
S_NoRelevantTitles == <<"C","o","u","l","d"," ","n","o","t"," ","i","d","e","n","t","i","f",
  "y"," ","a","n","y"," ","r","e","l","e","v","a","n","t"," ","t","i","t","l","e","s",".">>

\* Used keyword matching fallback after error.
S_UsedKeywordAfterError == <<"U","s","e","d"," ","k","e","y","w","o","r","d"," ","m","a",
  "t","c","h","i","n","g"," ","f","a","l","l","b","a","c","k"," ","a","f","t","e","r"," ",
  "e","r","r","o","r",".">>

\* No matches found even with keyword fallback.
S_NoMatchesEvenKeyword == <<"N","o"," ","m","a","t","c","h","e","s"," ","f","o","u","n","d",
  " ","e","v","e","n"," ","w","i","t","h"," ","k","e","y","w","o","r","d"," ","f","a","l",
  "l","b","a","c","k",".">>

\* ] 
PrefixEnd == <<"]"," ">>

\* [T1] Age
Title1 == <<"[","T","1","]"," ","A","g","e">>

\* [T2] BMI change
Title2 == <<"[","T","2","]"," ","B","M","I"," ","c","h","a","n","g","e">>

\* [T3] Adverse events
Title3 == <<"[","T","3","]"," ","A","d","v","e","r","s","e"," ","e","v","e","n","t","s">>

\* [F1] BMI by arm
Title4 == <<"[","F","1","]"," ","B","M","I"," ","b","y"," ","a","r","m">>

\* [T4] Weight
Title5 == <<"[","T","4","]"," ","W","e","i","g","h","t">>

\* Dropout
Title6 == <<"D","r","o","p","o","u","t">>

\* 2, 5, 9
Resp259 == <<"2",","," ","5",","," ","9">>

\* 2
Resp2 == <<"2">>

\* 9
Resp9 == <<"9">>

\* 0
Resp0 == <<"0">>

\* -3
RespMinus3 == <<"-","3">>

\* Table 4
RespTable4 == <<"T","a","b","l","e"," ","4">>

\* weight
RespWeight == <<"w","e","i","g","h","t">>

\* zzz
RespZzz == <<"z","z","z">>

\*  \n
RespBlank == <<" ","\n">>

\* 1 2
Resp1Space2 == <<"1"," ","2">>

\* 3,1,4,2
Resp3And1 == <<"3",",","1",",","4",",","2">>


\* \n\n
ParaSep == <<"\n","\n">>

\* Methods
TitleMethods == <<"M","e","t","h","o","d","s">>

\* Results
TitleResults == <<"R","e","s","u","l","t","s">>

\* Intro
TitleIntro == <<"I","n","t","r","o">>

\* Blank
TitleBlank == <<"B","l","a","n","k">>

\* Mixed
TitleMixed == <<"M","i","x","e","d">>

\* ab\n\ncd
BodyTwo == <<"a","b","\n","\n","c","d">>

\* ef\n\n\ngh
BodyIndented == <<"e","f","\n","\n","\n","g","h">>

\* nopqrstuvw
BodyLong == <<"n","o","p","q","r","s","t","u","v","w">>

\*  \n
BodyBlank == <<" ","\n">>

\* ij\n\n\n\nkl\n\nm\n
BodyMixed == <<"i","j","\n","\n","\n","\n","k","l","\n","\n","m","\n">>

\* ncbi.nlm.nih.gov/pmc/articles
S_PmcArticles == <<"n","c","b","i",".","n","l","m",".","n","i","h",".","g","o","v","/","p",
  "m","c","/","a","r","t","i","c","l","e","s">>

\* pmc.ncbi.nlm.nih.gov
S_PmcHost == <<"p","m","c",".","n","c","b","i",".","n","l","m",".","n","i","h",".","g","o",
  "v">>

\* clinicaltrials.gov/study
S_TrialStudy == <<"c","l","i","n","i","c","a","l","t","r","i","a","l","s",".","g","o","v",
  "/","s","t","u","d","y">>

\* PMC
S_PMC == <<"P","M","C">>

\* NCT
S_NCT == <<"N","C","T">>

\* Failed to fetch XML from API for 
S_FailedFetchXml == <<"F","a","i","l","e","d"," ","t","o"," ","f","e","t","c","h"," ","X",
  "M","L"," ","f","r","o","m"," ","A","P","I"," ","f","o","r"," ">>

\* Could not extract PMC ID from URL.
S_NoPmcId == <<"C","o","u","l","d"," ","n","o","t"," ","e","x","t","r","a","c","t"," ","P",
  "M","C"," ","I","D"," ","f","r","o","m"," ","U","R","L",".">>

\* Could not extract NCT ID.
S_NoNctId == <<"C","o","u","l","d"," ","n","o","t"," ","e","x","t","r","a","c","t"," ","N",
  "C","T"," ","I","D",".">>

\* Unrecognized URL.
S_UnrecognizedUrl == <<"U","n","r","e","c","o","g","n","i","z","e","d"," ","U","R","L",".">>

\* API request failed: 
S_ApiRequestFailed == <<"A","P","I"," ","r","e","q","u","e","s","t"," ","f","a","i","l","e",
  "d",":"," ">>

\* timeout
FetchError == <<"t","i","m","e","o","u","t">>

\* Failed to add 
S_FailedToAdd == <<"F","a","i","l","e","d"," ","t","o"," ","a","d","d"," ">>

\* Failed to process 
S_FailedToProcess == <<"F","a","i","l","e","d"," ","t","o"," ","p","r","o","c","e","s","s",
  " ">>

\* : 
S_Colon == <<":"," ">>

\* no embedding
InsertError == <<"n","o"," ","e","m","b","e","d","d","i","n","g">>

\* added
S_Added == <<"a","d","d","e","d">>

\* Title
TitleTitle == <<"T","i","t","l","e">>

\* ## 
S_Heading == <<"#","#"," ">>

\* A trial
BodyPaperTitle == <<"A"," ","t","r","i","a","l">>

\* A trial (NCT ID: NCT01)
BodyTrialTitle == <<"A"," ","t","r","i","a","l"," ","(","N","C","T"," ","I","D",":"," ","N",
  "C","T","0","1",")">>

\* pmc.ncbi.nlm.nih.gov/articles/PMC12/
LinkPmc == <<"p","m","c",".","n","c","b","i",".","n","l","m",".","n","i","h",".","g","o",
  "v","/","a","r","t","i","c","l","e","s","/","P","M","C","1","2","/">>

\* pmc.ncbi.nlm.nih.gov/about
LinkPmcNoId == <<"p","m","c",".","n","c","b","i",".","n","l","m",".","n","i","h",".","g",
  "o","v","/","a","b","o","u","t">>

\* clinicaltrials.gov/study/NCT01
LinkTrial == <<"c","l","i","n","i","c","a","l","t","r","i","a","l","s",".","g","o","v","/",
  "s","t","u","d","y","/","N","C","T","0","1">>

\* clinicaltrials.gov/study/
LinkTrialNoId == <<"c","l","i","n","i","c","a","l","t","r","i","a","l","s",".","g","o","v",
  "/","s","t","u","d","y","/">>

\* example.org/paper
LinkOther == <<"e","x","a","m","p","l","e",".","o","r","g","/","p","a","p","e","r">>

\* No text chunks provided.
S_NoTextChunks == <<"N","o"," ","t","e","x","t"," ","c","h","u","n","k","s"," ","p","r","o",
  "v","i","d","e","d",".">>

\* Embedding model initialization failed.
S_EmbeddingInitFailed == <<"E","m","b","e","d","d","i","n","g"," ","m","o","d","e","l"," ",
  "i","n","i","t","i","a","l","i","z","a","t","i","o","n"," ","f","a","i","l","e","d",".">>

\* Added 
S_AddedPrefix == <<"A","d","d","e","d"," ">>

\*  chunks to vector store.
S_AddedSuffix == <<" ","c","h","u","n","k","s"," ","t","o"," ","v","e","c","t","o","r"," ",
  "s","t","o","r","e",".">>

\* Failed to create/update vector store: 
S_FailedCreate == <<"F","a","i","l","e","d"," ","t","o"," ","c","r","e","a","t","e","/","u",
  "p","d","a","t","e"," ","v","e","c","t","o","r"," ","s","t","o","r","e",":"," ">>

\* add failed
StoreError == <<"a","d","d"," ","f","a","i","l","e","d">>

\* persist failed
PersistError == <<"p","e","r","s","i","s","t"," ","f","a","i","l","e","d">>


(***************************************************************************)
(* The session: the vector store in st.session_state and the language      *)
(* model of get_llm().  A stored chunk is a Document: its page_content and *)
(* its metadata.                                                           *)
(***************************************************************************)
MaxChunks == 2

Doc(text, source, section) ==
  [page_content |-> text, metadata |-> [source |-> source, section |-> section]]

\* the chunks a store of the model is made of, in the order of their ingestion
ChunkPool ==
  << Doc(TextBMI, SrcA, SecResults), Doc(TextBMI, SrcA, SecMethods),
     Doc(TextAge, SrcA, SecAbstract), Doc(TextAge, SrcB, SecOutcomes),
     Doc(TextAge, SrcCT, SecOutcomes) >>

NoStore == [k |-> "none", docs |-> <<>>]

Store(docs) == [k |-> "store", docs |-> docs]

SeqsUpTo(S, n) == UNION {[1..m -> S] : m \in 0..n}

RECURSIVE Ascending(_)
\* the members of a set of numbers, least first
Ascending(S) ==
  IF S = {} THEN <<>>
  ELSE LET least == CHOOSE a \in S : \A b \in S : a <= b
       IN <<least>> \o Ascending(S \ {least})

\* the stores of the model: up to MaxChunks chunks of the pool
Stores ==
  {Store([n \in 1..Cardinality(S) |-> ChunkPool[Ascending(S)[n]]]) :
     S \in {T \in SUBSET (1..Len(ChunkPool)) : Cardinality(T) <= MaxChunks}}

UserOutcomes == {OutcomeBMI, OutcomeAge}

SourceUrls == {SrcA, SrcB}

(***************************************************************************)
(* The retriever: similarity search over the chunks that satisfy a filter. *)
(* The ranking is the embedding's, so a query returns any list of up to k  *)
(* distinct matching chunks, or raises.                                    *)
(***************************************************************************)
K_LOCATOR == 5

K_EXTRACTOR == 40

LocatorSections == {SecOutcomes, SecResults, SecAbstract}

\* {"$and": [{'source': source_url}, {'section': {"$in": [...]}}]}
LocatorFilter(source) == [source |-> source, by_section |-> TRUE, sections |-> LocatorSections]

\* {'source': source_url}
ExtractorFilter(source) == [source |-> source, by_section |-> FALSE, sections |-> {}]

Satisfies(doc, filter) ==
  /\ doc.metadata.source = filter.source
  /\ filter.by_section => doc.metadata.section \in filter.sections

Matching(docs, filter) == {i \in 1..Len(docs) : Satisfies(docs[i], filter)}

Min(a, b) == IF a <= b THEN a ELSE b

Injective(f) == \A i, j \in DOMAIN f : f[i] = f[j] => i = j

\* the ranked lists a search may return: up to k distinct matching chunks
Rankings(docs, filter, k) ==
  LET m == Matching(docs, filter)
  IN {[i \in DOMAIN r |-> docs[r[i]]] :
        r \in {f \in SeqsUpTo(m, Min(k, Cardinality(m))) : Injective(f)}}

Raised(exc) == [raised |-> TRUE, exc |-> exc, ret |-> <<>>]

Returned(values) == [raised |-> FALSE, exc |-> "", ret |-> values]

\* retriever.invoke(query): the documents, or an exception of the store or the embedding
RetrieverInvoke(docs, filter, k) ==
  {Raised("RetrieverError")} \cup {Returned(r) : r \in Rankings(docs, filter, k)}

\* llm.invoke(prompt).content: a text of the model's set, or an exception
LlmInvoke(texts) == {Raised("LLMError")} \cup {Returned(<<PyStr(t)>>) : t \in texts}

\* an entry of the call log: the call, and what came back (for a query, whether it
\* raised and how many documents it returned)
QueryCall(filter, k, text, out) ==
  [op |-> "query", filter |-> filter, k |-> k, text |-> text,
   raised |-> out.raised, n |-> Len(out.ret)]

InvokeCall(prompt, out) == [op |-> "invoke", prompt |-> prompt, out |-> out]

(***************************************************************************)
(* extract_outcome_from_doc                                                *)
(***************************************************************************)
LocatorOutputs ==
  { LocExact, LocSameCase, LocNull, LocEmpty, LocProse, LocBareNull, LocUnparseable,
    LocNumber, LocNoKey }

ScoopOutputs == {ScoopData, ScoopWithNA, ScoopBlank, ScoopEmpty}

\* the locator step without its fallback: a failed completion leaves no name
LocateExactName_NoFallback(user_outcome, out) ==
  IF out.raised THEN PyNone
  ELSE LET answer_json == JsonLoads(clean_json_output(out.ret[1].s))
       IN IF answer_json.ok /\ answer_json.val.k = "dict"
          THEN GetOr(answer_json.val, K_exact_metric_name, PyNone)
          ELSE PyNone

\* lines 308-315: the exact metric name after the locator completion `out`
LocateExactName(user_outcome, out) ==
  IF out.raised THEN PyStr(user_outcome)
  ELSE LET answer_json == JsonLoads(clean_json_output(out.ret[1].s))
       IN IF ~answer_json.ok THEN PyStr(user_outcome)
          ELSE IF answer_json.val.k # "dict" THEN PyStr(user_outcome)
          ELSE IF Truthy(GetOr(answer_json.val, K_exact_metric_name, PyNone))
               THEN GetOr(answer_json.val, K_exact_metric_name, PyNone)
          ELSE PyStr(user_outcome)

RECURSIVE DictFromDocs(_, _)
\* {doc.page_content: doc for doc in docs}: a key keeps the place of its first
\* insertion and the value of its last
DictFromDocs(docs, acc) ==
  IF docs = <<>> THEN acc
  ELSE LET d == Head(docs)
       IN IF \E i \in 1..Len(acc) : acc[i].page_content = d.page_content
          THEN DictFromDocs(Tail(docs),
                 [i \in 1..Len(acc) |->
                    IF acc[i].page_content = d.page_content THEN d ELSE acc[i]])
          ELSE DictFromDocs(Tail(docs), Append(acc, d))

\* the merge without the deduplication
MergeChunks_NoDedup(chunks_original, chunks_specific) == chunks_original \o chunks_specific

\* lines 344-345: list(combined_chunks_map.values())
MergeChunks(chunks_original, chunks_specific) ==
  DictFromDocs(chunks_original \o chunks_specific, <<>>)

\* the comparison of line 339 without .lower()
NeedsSpecificQuery_CaseSensitive(exact, user_outcome) ==
  IF ~Truthy(exact) THEN "no"
  ELSE IF exact.k # "str" THEN "AttributeError"
  ELSE IF exact.s # user_outcome THEN "yes"
  ELSE "no"

\* line 339: whether the exact-name query is made; "AttributeError" when
\* exact_metric_name has no .lower()
NeedsSpecificQuery(exact, user_outcome) ==
  IF ~Truthy(exact) THEN "no"
  ELSE IF exact.k # "str" THEN "AttributeError"
  ELSE IF Lower(exact.s) # Lower(user_outcome) THEN "yes"
  ELSE "no"

VARIABLES
  vector_store,                  \* st.session_state['vector_store'], or NoStore
  llm,                           \* whether get_llm() returns a model
  calls,                         \* the retriever and completion calls made, in order
  xpc,                           \* where extract_outcome_from_doc stands
  source_url,
  user_outcome_of_interest,
  exact_metric_name,
  chunks_original,
  chunks_specific,
  context_chunks_for_extractor,
  extract_result,                \* what extract_outcome_from_doc returned or raised
  apc,                           \* where analyze_outcome_data stands
  attempt,
  best_result,
  analyze_calls,                 \* the completions of analyze_outcome_data: attempt, pass,
                                 \* what the pass did with it and the answer it parsed
  analyze_result,                \* what analyze_outcome_data returned
  tpc,                           \* where generate_outcome_table stands
  outcome_of_interest,
  unique_sources,
  source_index,                  \* i, the place in unique_sources of the loop of line 520
  table_data,
  raw_data_block,                \* the first component of extract_outcome_from_doc's pair
  table_result,                  \* what generate_outcome_table returned or raised
  dpc,                           \* where discover_metrics_in_doc stands
  discover_source_url,           \* the source_url of discover_metrics_in_doc
  context_string,
  discover_calls,                \* the completions of discover_metrics_in_doc
  discover_result,               \* what discover_metrics_in_doc returned or raised
  lpc,                           \* where discover_and_normalize_metrics_from_library stands
  library_sources,               \* its unique_sources
  library_index,                 \* i, the place in unique_sources of the loop of line 209
  raw_metrics_per_doc,           \* a dict: [source, metrics] in the order of insertion
  library_calls,                 \* the completions of _normalize_metrics
  library_result,                \* what the function returned or raised
  fpc,                           \* where find_relevant_table_titles stands
  all_titles,
  find_user_outcome,             \* the user_outcome_of_interest of find_relevant_table_titles
  response_content,
  strategies,                    \* the methods of find_relevant_table_titles tried so far
  find_result,                   \* what find_relevant_table_titles returned
  chunk_pc,                      \* where chunk_text stands
  sections_data,
  chunk_size,
  section_index,                 \* the place of the section of the loop of line 340
  paragraphs,
  para_index,                    \* the place of the paragraph of the loop of line 344
  current_chunk,
  all_chunks,
  chunk_result,                  \* what chunk_text returned
  embed_pc,                      \* where embed_documents or embed_query stands
  embed_method,                  \* which of the two was called
  embed_texts,
  api_response,                  \* what the embedding API answered
  embed_result,                  \* what the embedding function returned
  create_pc,                     \* where create_vector_store stands
  text_chunks,
  create_source_url,             \* the source_url of create_vector_store
  create_response,               \* what the embedding API answered to add_documents
  collection,                    \* the documents of the persisted Chroma collection
  create_result,                 \* what create_vector_store returned
  batch_pc,                      \* where the batch over the prepared links stands
  links,                         \* st.session_state['links_for_rag']
  link_index,                    \* i + 1, the place in links of the loop of line 112
  success_count,
  process_log,                   \* what process_single_link returned, link after link
  insert_calls,                  \* the calls of add_to_in_memory_vector_store made
  batch_errors,                  \* the st.error messages of the loop
  batch_result                   \* whether the batch ended or raised

sessionVars == <<vector_store, llm>>


analyzeVars == <<apc, attempt, best_result, analyze_calls, analyze_result>>

tableVars ==
  <<tpc, outcome_of_interest, unique_sources, source_index, table_data, raw_data_block,
    table_result>>

extractLocals ==
  <<source_url, user_outcome_of_interest, exact_metric_name, chunks_original,
    chunks_specific, context_chunks_for_extractor>>

extractVars == <<calls, xpc, extractLocals, extract_result>>

discoverVars ==
  <<dpc, discover_source_url, context_string, discover_calls, discover_result>>

libraryVars ==
  <<lpc, library_sources, library_index, raw_metrics_per_doc, library_calls, library_result>>

findVars ==
  <<fpc, all_titles, find_user_outcome, response_content, strategies, find_result>>

chunkVars ==
  <<chunk_pc, sections_data, chunk_size, section_index, paragraphs, para_index,
    current_chunk, all_chunks, chunk_result>>

embedVars == <<embed_pc, embed_method, embed_texts, api_response, embed_result>>

createVars ==
  <<create_pc, text_chunks, create_source_url, create_response, collection, create_result>>

batchVars ==
  <<batch_pc, links, link_index, success_count, process_log, insert_calls, batch_errors,
    batch_result>>

vars ==
  <<sessionVars, extractVars, analyzeVars, tableVars, discoverVars, libraryVars, findVars,
    chunkVars, embedVars, createVars, batchVars>>

\* what a step of extract_outcome_from_doc cannot touch
outsideExtract == <<sessionVars, analyzeVars, tableVars, discoverVars, libraryVars,
    findVars, chunkVars, embedVars,
    createVars, batchVars>>

\* what a step of analyze_outcome_data cannot touch
outsideAnalyze == <<sessionVars, extractVars, tableVars, discoverVars, libraryVars,
    findVars, chunkVars, embedVars,
    createVars, batchVars>>

\* what a step of generate_outcome_table cannot touch
outsideTable == <<sessionVars, discoverVars, libraryVars,
    findVars, chunkVars, embedVars,
    createVars, batchVars>>

NoResult == [raised |-> FALSE, exc |-> "", ret |-> <<>>]

ExtractIdle ==
  /\ calls = <<>>
  /\ xpc = "idle"
  /\ source_url = <<>>
  /\ user_outcome_of_interest = <<>>
  /\ exact_metric_name = PyNone
  /\ chunks_original = <<>>
  /\ chunks_specific = <<>>
  /\ context_chunks_for_extractor = <<>>
  /\ extract_result = NoResult

InitSession ==
  /\ vector_store \in {NoStore} \cup Stores
  /\ llm \in BOOLEAN

\* the call extract_outcome_from_doc(source_url, user_outcome_of_interest)
EnterExtract(source, outcome) ==
  /\ calls' = <<>>
  /\ xpc' = "start"
  /\ source_url' = source
  /\ user_outcome_of_interest' = outcome
  /\ exact_metric_name' = PyNone
  /\ chunks_original' = <<>>
  /\ chunks_specific' = <<>>
  /\ context_chunks_for_extractor' = <<>>
  /\ extract_result' = NoResult

ExtractReturn(res) ==
  /\ xpc' = "done"
  /\ extract_result' = res

\* lines 281-284
ExtractStart ==
  /\ xpc = "start"
  /\ IF vector_store.k = "none"
     THEN ExtractReturn(Returned(<<PyNone, PyStr(S_VectorStoreNotFound), PyStr(S_Error)>>))
     ELSE IF ~llm
     THEN ExtractReturn(Returned(<<PyNone, PyStr(S_LLMNotInitialized), PyStr(S_Error)>>))
     ELSE xpc' = "locator_query" /\ UNCHANGED extract_result
  /\ UNCHANGED <<outsideExtract, calls, extractLocals>>

\* line 297 without the short-circuit
NoLocatorChunks_Never(locator_context_chunks) == FALSE

\* line 297: not locator_context_chunks
NoLocatorChunks(locator_context_chunks) == locator_context_chunks = <<>>

\* lines 287-298
ExtractLocatorQuery ==
  /\ xpc = "locator_query"
  /\ \E out \in RetrieverInvoke(vector_store.docs, LocatorFilter(source_url), K_LOCATOR) :
       /\ calls' = Append(calls, QueryCall(LocatorFilter(source_url), K_LOCATOR,
                                           user_outcome_of_interest, out))
       /\ IF out.raised THEN ExtractReturn(out)
          ELSE IF NoLocatorChunks(out.ret)
          THEN ExtractReturn(Returned(<<PyStr(NA_NoRelevantSections),
                                        PyStr(S_ExtractionComplete)>>))
          ELSE xpc' = "locator_llm" /\ UNCHANGED extract_result
  /\ UNCHANGED <<outsideExtract, extractLocals>>

\* lines 300-315
ExtractLocatorLLM ==
  /\ xpc = "locator_llm"
  /\ \E out \in LlmInvoke(LocatorOutputs) :
       /\ exact_metric_name' = LocateExactName(user_outcome_of_interest, out)
       /\ calls' = Append(calls, InvokeCall("locator", out))
  /\ xpc' = "anchor_query"
  /\ UNCHANGED <<outsideExtract, source_url, user_outcome_of_interest, chunks_original,
                 chunks_specific, context_chunks_for_extractor, extract_result>>

\* lines 326-335
ExtractAnchorQuery ==
  /\ xpc = "anchor_query"
  /\ \E out \in RetrieverInvoke(vector_store.docs, ExtractorFilter(source_url), K_EXTRACTOR) :
       /\ calls' = Append(calls, QueryCall(ExtractorFilter(source_url), K_EXTRACTOR,
                                           user_outcome_of_interest, out))
       /\ IF out.raised
          THEN ExtractReturn(out) /\ UNCHANGED chunks_original
          ELSE /\ chunks_original' = out.ret
               /\ xpc' = "specific_query"
               /\ UNCHANGED extract_result
  /\ UNCHANGED <<outsideExtract, source_url, user_outcome_of_interest, exact_metric_name,
                 chunks_specific, context_chunks_for_extractor>>

\* lines 344-349, once chunks_specific is known
ExtractMerge(specific) ==
  /\ chunks_specific' = specific
  /\ context_chunks_for_extractor' = MergeChunks(chunks_original, specific)
  /\ IF MergeChunks(chunks_original, specific) = <<>>
     THEN ExtractReturn(Raised("NameError"))      \* metric_definition is not defined
     ELSE xpc' = "scoop" /\ UNCHANGED extract_result

\* lines 338-349
ExtractSpecificQuery ==
  /\ xpc = "specific_query"
  /\ LET need == NeedsSpecificQuery(exact_metric_name, user_outcome_of_interest)
     IN CASE need = "AttributeError" ->
               /\ ExtractReturn(Raised("AttributeError"))
               /\ UNCHANGED <<calls, chunks_specific, context_chunks_for_extractor>>
          [] need = "no" ->
               /\ ExtractMerge(<<>>)
               /\ UNCHANGED calls
          [] OTHER ->
               \E out \in RetrieverInvoke(vector_store.docs, ExtractorFilter(source_url),
                                          K_EXTRACTOR) :
                 /\ calls' = Append(calls, QueryCall(ExtractorFilter(source_url),
                                                     K_EXTRACTOR, exact_metric_name.s, out))
                 /\ IF out.raised
                    THEN /\ ExtractReturn(out)
                         /\ UNCHANGED <<chunks_specific, context_chunks_for_extractor>>
                    ELSE ExtractMerge(out.ret)
  /\ UNCHANGED <<outsideExtract, source_url, user_outcome_of_interest, exact_metric_name,
                 chunks_original>>

\* lines 370-386: the result for the scoop completion `out`
ScoopResult(out) ==
  IF out.raised THEN Returned(<<PyNone, PyStr(S_ExtractionError)>>)
  ELSE LET data_block == Strip(out.ret[1].s)
       IN IF data_block = <<>>
          THEN Returned(<<PyStr(NA_ValueNotFound), PyStr(S_ExtractionComplete)>>)
          ELSE Returned(<<PyStr(data_block), PyStr(S_ExtractionSuccessful)>>)

\* lines 351-386
ExtractScoop ==
  /\ xpc = "scoop"
  /\ \E out \in LlmInvoke(ScoopOutputs) :
       /\ ExtractReturn(ScoopResult(out))
       /\ calls' = Append(calls, InvokeCall("scoop", out))
  /\ UNCHANGED <<outsideExtract, extractLocals>>

ExtractSteps ==
  \/ ExtractStart
  \/ ExtractLocatorQuery
  \/ ExtractLocatorLLM
  \/ ExtractAnchorQuery
  \/ ExtractSpecificQuery
  \/ ExtractScoop

\* a caller's extract_outcome_from_doc(source, outcome)
CallExtract ==
  /\ xpc = "idle"
  /\ \E source \in SourceUrls, outcome \in UserOutcomes : EnterExtract(source, outcome)
  /\ UNCHANGED outsideExtract

(***************************************************************************)
(* analyze_outcome_data                                                    *)
(***************************************************************************)
MAX_ATTEMPTS == 3

ClassifierOutputs == {ClsOk, ClsBad}

AnalysisOutputs == {AnaGood, AnaNoPlacebo, AnaNA, AnaMissing, AnaNumber, AnaBad}

\* lines 753-757
DefaultResult ==
  PyDict(<<[key |-> K_placebo_data, val |-> PyStr(NA)],
           [key |-> K_treatment_arms, val |-> PyStr(NA)],
           [key |-> K_durations, val |-> PyStr(NA)]>>)

AnalyzeIdle ==
  /\ apc = "idle"
  /\ attempt = 0
  /\ best_result = DefaultResult
  /\ analyze_calls = <<>>
  /\ analyze_result = NoResult

\* the call analyze_outcome_data(raw_data_block, outcome_name)
EnterAnalyze ==
  /\ apc' = "start"
  /\ attempt' = 0
  /\ best_result' = DefaultResult
  /\ analyze_calls' = <<>>
  /\ analyze_result' = NoResult

AnalyzeReturn(value) ==
  /\ apc' = "done"
  /\ analyze_result' = Returned(<<value>>)

\* lines 750-760
AnalyzeStart ==
  /\ apc = "start"
  /\ IF ~llm THEN AnalyzeReturn(PyNone)
     ELSE apc' = "classify" /\ UNCHANGED analyze_result
  /\ UNCHANGED <<outsideAnalyze, attempt, best_result, analyze_calls>>

\* lines 760, 881-884 keeping the first backup instead of the last
AnalyzeNextAttempt_First(best) ==
  /\ best_result' = IF best_result # DefaultResult THEN best_result ELSE best
  /\ IF attempt + 1 < MAX_ATTEMPTS
     THEN /\ attempt' = attempt + 1
          /\ apc' = "classify"
          /\ UNCHANGED analyze_result
     ELSE /\ AnalyzeReturn(IF best_result # DefaultResult THEN best_result ELSE best)
          /\ UNCHANGED attempt

\* lines 760, 881-884: the next attempt of the loop, or the return that follows it
AnalyzeNextAttempt(best) ==
  /\ best_result' = best
  /\ IF attempt + 1 < MAX_ATTEMPTS
     THEN /\ attempt' = attempt + 1
          /\ apc' = "classify"
          /\ UNCHANGED analyze_result
     ELSE /\ AnalyzeReturn(best)
          /\ UNCHANGED attempt

\* lines 783-788: whether the classifier pass raises for the completion `out`
ClassifierRaises(out) ==
  \/ out.raised
  \/ LET classification == JsonLoads(clean_json_output(out.ret[1].s))
     IN ~classification.ok \/ classification.val.k # "dict"

\* lines 762-788
AnalyzeClassify ==
  /\ apc = "classify"
  /\ \E out \in LlmInvoke(ClassifierOutputs) :
       /\ analyze_calls' =
            Append(analyze_calls,
                   [attempt |-> attempt, pass |-> "classifier",
                    then |-> IF ClassifierRaises(out) THEN "raise" ELSE "continue",
                    analysis |-> PyNone])
       /\ IF ClassifierRaises(out) THEN AnalyzeNextAttempt(best_result)
          ELSE /\ apc' = "extract"
               /\ UNCHANGED <<attempt, best_result, analyze_result>>
  /\ UNCHANGED outsideAnalyze

\* line 874: the quality check on p_data
GoodPlacebo(p_data) ==
  /\ ~Contains(p_data, BadNoPlacebo)
  /\ ~Contains(p_data, BadNA)
  /\ ~Contains(p_data, BadNone)

\* lines 866-878: "raise", "return" or "retry" for the extractor completion `out`,
\* with the parsed answer
ExtractorPass(out) ==
  IF out.raised THEN [then |-> "raise", analysis |-> PyNone]
  ELSE LET current_analysis == JsonLoads(clean_json_output(out.ret[1].s))
       IN IF ~current_analysis.ok \/ current_analysis.val.k # "dict"
          THEN [then |-> "raise", analysis |-> PyNone]
          ELSE LET p == GetOr(current_analysis.val, K_placebo_data, PyStr(<<>>))
               IN IF p.k # "str" THEN [then |-> "raise", analysis |-> PyNone]
                  ELSE IF GoodPlacebo(Lower(p.s))
                  THEN [then |-> "return", analysis |-> current_analysis.val]
                  ELSE [then |-> "retry", analysis |-> current_analysis.val]

\* lines 790-881
AnalyzeExtract ==
  /\ apc = "extract"
  /\ \E out \in LlmInvoke(AnalysisOutputs) :
       LET r == ExtractorPass(out)
       IN /\ analyze_calls' =
               Append(analyze_calls,
                      [attempt |-> attempt, pass |-> "extractor",
                       then |-> r.then, analysis |-> r.analysis])
          /\ CASE r.then = "return" ->
                    /\ AnalyzeReturn(r.analysis)
                    /\ UNCHANGED <<attempt, best_result>>
               [] r.then = "retry" -> AnalyzeNextAttempt(r.analysis)
               [] OTHER -> AnalyzeNextAttempt(best_result)
  /\ UNCHANGED outsideAnalyze

AnalyzeSteps ==
  \/ AnalyzeStart
  \/ AnalyzeClassify
  \/ AnalyzeExtract

(***************************************************************************)
(* generate_outcome_table                                                  *)
(***************************************************************************)
TableIdle ==
  /\ tpc = "idle"
  /\ outcome_of_interest = <<>>
  /\ unique_sources = <<>>
  /\ source_index = 0
  /\ table_data = <<>>
  /\ raw_data_block = PyNone
  /\ table_result = NoResult

\* pd.DataFrame(table_data)
DataFrame(rows) == [k |-> "DataFrame", rows |-> rows]

\* lines 511-512: sorted(list(set(meta['source'] for meta in ...)))
UniqueSources(docs) == SortedTexts({docs[n].metadata.source : n \in 1..Len(docs)})

TableReturn(res) ==
  /\ tpc' = "done"
  /\ table_result' = res

\* the call generate_outcome_table(outcome_of_interest)
CallTable ==
  /\ tpc = "idle"
  /\ \E outcome \in UserOutcomes : outcome_of_interest' = outcome
  /\ tpc' = "start"
  /\ UNCHANGED <<outsideTable, extractVars, analyzeVars, unique_sources, source_index,
                 table_data, raw_data_block, table_result>>

\* lines 507-518
TableStart ==
  /\ tpc = "start"
  /\ IF vector_store.k = "none"
     THEN /\ TableReturn(Returned(<<PyNone, PyStr(S_TableNoStore)>>))
          /\ UNCHANGED <<unique_sources, source_index>>
     ELSE /\ unique_sources' = UniqueSources(vector_store.docs)
          /\ IF UniqueSources(vector_store.docs) = <<>>
             THEN /\ TableReturn(Returned(<<PyNone, PyStr(S_NoDocuments)>>))
                  /\ UNCHANGED source_index
             ELSE /\ tpc' = "loop"
                  /\ source_index' = 1
                  /\ UNCHANGED table_result
  /\ UNCHANGED <<outsideTable, extractVars, analyzeVars, outcome_of_interest, table_data,
                 raw_data_block>>

\* line 532 with no source skipped
IsClinicalTrials_Never(source) == FALSE

\* line 532
IsClinicalTrials(source) == Contains(source, CT_GOV)

\* lines 520-538 and, after the last source, 565-569
TableLoop ==
  /\ tpc = "loop"
  /\ IF source_index > Len(unique_sources)
     THEN /\ IF table_data = <<>>
             THEN TableReturn(Returned(<<PyNone, PyStr(S_CouldNotExtract)>>))
             ELSE TableReturn(Returned(<<DataFrame(table_data), PyStr(S_TableComplete)>>))
          /\ UNCHANGED <<source_index, extractVars>>
     ELSE IF IsClinicalTrials(unique_sources[source_index])
     THEN /\ source_index' = source_index + 1
          /\ UNCHANGED <<tpc, table_result, extractVars>>
     ELSE /\ EnterExtract(unique_sources[source_index], outcome_of_interest)
          /\ tpc' = "extracting"
          /\ UNCHANGED <<source_index, table_result>>
  /\ UNCHANGED <<outsideTable, analyzeVars, outcome_of_interest, unique_sources, table_data,
                 raw_data_block>>

\* lines 556-563: a row of table_data
Row(source, findings_str, placebo_data, treatment_arms, durations, raw_scoop) ==
  [source_document |-> PyStr(source), outcome |-> PyStr(findings_str),
   placebo_data |-> placebo_data, treatment_arms |-> treatment_arms,
   durations |-> durations, raw_data_scoop |-> raw_scoop]

\* line 543: "analyze", "skip", or the exception the test raises
ScoopTest(block) ==
  IF block.k # "str" THEN "TypeError"
  ELSE IF ~Contains(block.s, NA) /\ Strip(block.s) # <<>> THEN "analyze"
  ELSE "skip"

\* the frame of extract_outcome_from_doc is gone once its caller has the result
LeaveExtract ==
  /\ calls' = <<>>
  /\ xpc' = "idle"
  /\ source_url' = <<>>
  /\ user_outcome_of_interest' = <<>>
  /\ exact_metric_name' = PyNone
  /\ chunks_original' = <<>>
  /\ chunks_specific' = <<>>
  /\ context_chunks_for_extractor' = <<>>
  /\ extract_result' = NoResult

\* the frame of analyze_outcome_data is gone once its caller has the result
LeaveAnalyze ==
  /\ apc' = "idle"
  /\ attempt' = 0
  /\ best_result' = DefaultResult
  /\ analyze_calls' = <<>>
  /\ analyze_result' = NoResult

\* lines 538-554, 556-563: back from extract_outcome_from_doc
TableAfterExtract ==
  /\ tpc = "extracting"
  /\ xpc = "done"
  /\ IF extract_result.raised
     THEN /\ TableReturn(extract_result)
          /\ LeaveExtract
          /\ UNCHANGED <<source_index, table_data, raw_data_block, analyzeVars>>
     ELSE IF Len(extract_result.ret) # 2
     THEN /\ TableReturn(Raised("ValueError"))      \* too many values to unpack
          /\ LeaveExtract
          /\ UNCHANGED <<source_index, table_data, raw_data_block, analyzeVars>>
     ELSE /\ raw_data_block' = extract_result.ret[1]
          /\ LeaveExtract
          /\ CASE ScoopTest(extract_result.ret[1]) = "TypeError" ->
                    /\ TableReturn(Raised("TypeError"))
                    /\ UNCHANGED <<source_index, table_data, analyzeVars>>
               [] ScoopTest(extract_result.ret[1]) = "analyze" ->
                    /\ EnterAnalyze
                    /\ tpc' = "analyzing"
                    /\ UNCHANGED <<source_index, table_data, table_result>>
               [] OTHER ->
                    /\ table_data' = Append(table_data,
                         Row(unique_sources[source_index], DataNotFound, PyStr(NA),
                             PyStr(NA), PyStr(NA), extract_result.ret[1]))
                    /\ source_index' = source_index + 1
                    /\ tpc' = "loop"
                    /\ UNCHANGED <<table_result, analyzeVars>>
  /\ UNCHANGED <<outsideTable, outcome_of_interest, unique_sources>>

\* lines 544-552, 556-563: back from analyze_outcome_data
TableAfterAnalyze ==
  /\ tpc = "analyzing"
  /\ apc = "done"
  /\ LET analysis == analyze_result.ret[1]
     IN IF analysis.k # "dict"
        THEN /\ TableReturn(Raised("AttributeError"))
             /\ UNCHANGED <<source_index, table_data>>
        ELSE /\ table_data' = Append(table_data,
                  Row(unique_sources[source_index], SeeExtractedDetails,
                      GetOr(analysis, K_placebo_data, PyStr(NA)),
                      GetOr(analysis, K_treatment_arms, PyStr(NA)),
                      GetOr(analysis, K_durations, PyStr(NA)),
                      raw_data_block))
             /\ source_index' = source_index + 1
             /\ tpc' = "loop"
             /\ UNCHANGED table_result
  /\ LeaveAnalyze
  /\ UNCHANGED <<outsideTable, extractVars, outcome_of_interest, unique_sources,
                 raw_data_block>>

TableSteps ==
  \/ TableStart
  \/ TableLoop
  \/ TableAfterExtract
  \/ TableAfterAnalyze

(***************************************************************************)
(* discover_metrics_in_doc                                                 *)
(***************************************************************************)
DiscoverOutputs ==
  { DiscJson, DiscObjects, DiscNotObject, DiscMalformed, DiscProse, DiscWrapped,
    DiscEmptyList, DiscNumber, DiscText, DiscNoKey, DiscThree }

\* the sources discover_metrics_in_doc is asked about
DiscoverSources == {SrcA, SrcB, SrcCT}

\* vector_store.get(where={"source": source_url}, include=["documents"]): the source's
\* chunks in the order of the store
StoreGet(docs, source) == SelectSeq(docs, LAMBDA d : d.metadata.source = source)

\* line 83
ContextString(chunks) ==
  Join([n \in 1..Len(chunks) |-> chunks[n].page_content], ChunkSeparator)

\* line 85 without the test
EmptyContext_Never(context) == FALSE

\* line 85: not context_string.strip()
EmptyContext(context) == Strip(context) = <<>>

RECURSIVE DictKeys(_, _)
\* the keys of a dict, each once, in the order of insertion
DictKeys(items, seen) ==
  IF items = <<>> THEN <<>>
  ELSE IF Head(items).key \in seen THEN DictKeys(Tail(items), seen)
  ELSE <<PyStr(Head(items).key)>> \o DictKeys(Tail(items), seen \cup {Head(items).key})

\* for m in metrics_list: the values the loop sees, or ok |-> FALSE for the TypeError
\* of a value that is not iterable
Iterate(v) ==
  CASE v.k = "list" -> [ok |-> TRUE, items |-> v.items]
    [] v.k = "str"  -> [ok |-> TRUE, items |-> [n \in 1..Len(v.s) |-> PyStr(<<v.s[n]>>)]]
    [] v.k = "dict" -> [ok |-> TRUE, items |-> DictKeys(v.items, {})]
    [] OTHER        -> [ok |-> FALSE, items |-> <<>>]

\* lines 92-101 taking str(m) of every element
ForceString_Plain(m) == Str(m)

\* lines 92-101: the string one element of metrics_list becomes
ForceString(m) ==
  IF m.k = "dict"
  THEN IF HasKey(m, K_metric) THEN Str(DictGet(m, K_metric))
       ELSE IF Len(m.items) > 0 THEN Str(FirstValue(m))
       ELSE Str(m)
  ELSE Str(m)

\* lines 89-102: _force_strings
force_strings(items) == [n \in 1..Len(items) |-> PyStr(ForceString(items[n]))]

\* a character of the class [\w\s/%\(\)\-]
ClassChar(c) == c \in Letters \cup Digits \cup Whitespace \cup {"_", "/", "%", "(", ")", "-"}

RECURSIVE RunEnd(_, _)
\* the place after the run of class characters that starts at pos
RunEnd(t, pos) == IF pos > Len(t) \/ ~ClassChar(t[pos]) THEN pos ELSE RunEnd(t, pos + 1)

RECURSIVE FindAll(_, _)
\* line 135: re.findall(r'([A-Za-z][\w\s/%\(\)\-]*?\d+[\w\s/%\(\)\-]*)', raw_output)
\* from pos on. A match begins at a letter with a digit later in its run of class
\* characters and, the tail being greedy, takes the rest of the run.
FindAll(t, pos) ==
  IF pos > Len(t) THEN <<>>
  ELSE LET e == RunEnd(t, pos)
       IN IF t[pos] \in Letters /\ \E n \in (pos + 1)..(e - 1) : t[n] \in Digits
          THEN <<PyStr(SubSeq(t, pos, e - 1))>> \o FindAll(t, e)
          ELSE FindAll(t, pos + 1)

\* lines 126-131: the metrics of the JSON attempt, <<>> when it yields nothing or raises
JsonMetrics(raw_output) ==
  LET answer_json == JsonLoads(raw_output)
  IN IF ~answer_json.ok \/ answer_json.val.k # "dict" THEN <<>>
     ELSE LET metrics == Iterate(GetOr(answer_json.val, K_metrics, PyList(<<>>)))
          IN IF metrics.ok THEN force_strings(metrics.items) ELSE <<>>

\* lines 118-144: the result for the completion `out`
DiscoverResult(out) ==
  IF out.raised THEN Returned(<<PyList(<<>>), PyStr(S_DiscoveryError)>>)
  ELSE LET raw_output == out.ret[1].s
           metrics_list == JsonMetrics(raw_output)
           fallback_metrics == force_strings(FindAll(raw_output, 1))
       IN IF metrics_list # <<>>
          THEN Returned(<<PyList(metrics_list), PyStr(S_DiscoverySuccessful)>>)
          ELSE IF fallback_metrics # <<>>
          THEN Returned(<<PyList(fallback_metrics), PyStr(S_DiscoveryFallback)>>)
          ELSE Returned(<<PyList(<<>>), PyStr(S_DiscoveryNothing)>>)

DiscoverIdle ==
  /\ dpc = "idle"
  /\ discover_source_url = <<>>
  /\ context_string = <<>>
  /\ discover_calls = <<>>
  /\ discover_result = NoResult

\* the call discover_metrics_in_doc(source_url)
EnterDiscover(source) ==
  /\ dpc' = "start"
  /\ discover_source_url' = source
  /\ context_string' = <<>>
  /\ discover_calls' = <<>>
  /\ discover_result' = NoResult

DiscoverReturn(res) ==
  /\ dpc' = "done"
  /\ discover_result' = res

\* what a step of discover_metrics_in_doc cannot touch
outsideDiscover == <<sessionVars, extractVars, analyzeVars, tableVars, libraryVars,
    findVars, chunkVars, embedVars,
    createVars, batchVars>>

\* lines 70-86
DiscoverStart ==
  /\ dpc = "start"
  /\ IF vector_store.k = "none"
     THEN /\ DiscoverReturn(Returned(<<PyNone, PyStr(S_DiscoverNoStore)>>))
          /\ UNCHANGED context_string
     ELSE IF ~llm
     THEN /\ DiscoverReturn(Returned(<<PyNone, PyStr(S_LLMNotInitialized)>>))
          /\ UNCHANGED context_string
     ELSE LET all_doc_chunks == StoreGet(vector_store.docs, discover_source_url)
          IN /\ context_string' = ContextString(all_doc_chunks)
             /\ IF EmptyContext(ContextString(all_doc_chunks))
                THEN DiscoverReturn(Returned(<<PyList(<<>>), PyStr(S_NoTextContent)>>))
                ELSE dpc' = "llm" /\ UNCHANGED discover_result
  /\ UNCHANGED <<outsideDiscover, discover_source_url, discover_calls>>

\* lines 105-144
DiscoverLLM ==
  /\ dpc = "llm"
  /\ \E out \in LlmInvoke(DiscoverOutputs) :
       /\ discover_calls' = Append(discover_calls, InvokeCall(context_string, out))
       /\ DiscoverReturn(DiscoverResult(out))
  /\ UNCHANGED <<outsideDiscover, discover_source_url, context_string>>

DiscoverSteps ==
  \/ DiscoverStart
  \/ DiscoverLLM

\* a caller's discover_metrics_in_doc(source)
CallDiscover ==
  /\ dpc = "idle"
  /\ \E source \in DiscoverSources : EnterDiscover(source)
  /\ UNCHANGED outsideDiscover

(***************************************************************************)
(* _normalize_metrics and discover_and_normalize_metrics_from_library      *)
(***************************************************************************)
NormalizerOutputs ==
  {NormGood, NormPartial, NormProse, NormEmpty, NormList, NormBadValue, NormTwo}

\* line 151: sorted(list(set(m for m in raw_metrics_list if m)))
UniqueMetrics(raw_metrics_list) ==
  SortedTexts({raw_metrics_list[n].s : n \in 1..Len(raw_metrics_list)} \ {<<>>})

\* lines 172-184: what _normalize_metrics returns for the completion `out`; None
\* stands for both except branches
normalize_metrics(out) ==
  IF out.raised THEN PyNone
  ELSE LET normalized_map == JsonLoads(out.ret[1].s)
       IN IF normalized_map.ok THEN normalized_map.val ELSE PyNone

\* line 217: the metrics of all documents, in the order of the documents
RECURSIVE AllRawMetrics(_)
AllRawMetrics(per_doc) ==
  IF per_doc = <<>> THEN <<>> ELSE Head(per_doc).metrics \o AllRawMetrics(Tail(per_doc))

\* d.items(): each key once, with its last value
DictItems(d) ==
  LET keys == DictKeys(d.items, {})
  IN [n \in 1..Len(keys) |-> [key |-> keys[n].s, val |-> DictGet(d, keys[n].s)]]

RECURSIVE SynonymPairs(_)
\* line 249: the (synonym.lower(), canonical) pairs in the order the comprehension
\* meets them, or the exception it raises on a value that is not iterable or on a
\* synonym that is not a str
SynonymPairs(items) ==
  IF items = <<>> THEN [exc |-> "", pairs |-> <<>>]
  ELSE LET synonyms == Iterate(Head(items).val)
       IN IF ~synonyms.ok THEN [exc |-> "TypeError", pairs |-> <<>>]
          ELSE IF \E n \in 1..Len(synonyms.items) : synonyms.items[n].k # "str"
          THEN [exc |-> "AttributeError", pairs |-> <<>>]
          ELSE LET rest == SynonymPairs(Tail(items))
               IN IF rest.exc # "" THEN rest
                  ELSE [exc |-> "",
                        pairs |-> [n \in 1..Len(synonyms.items) |->
                                     [synonym |-> Lower(synonyms.items[n].s),
                                      canonical |-> Head(items).key]] \o rest.pairs]

\* line 249: synonym_to_canonical_map, a later pair replacing an earlier one
SynonymMap(pairs) ==
  [s \in {pairs[n].synonym : n \in 1..Len(pairs)} |->
     pairs[CHOOSE n \in 1..Len(pairs) :
             pairs[n].synonym = s /\ \A later \in (n + 1)..Len(pairs) : pairs[later].synonym # s
          ].canonical]

\* lines 254-257: canonical_metrics_in_doc
CanonicalMetricsInDoc(source_metrics, synonym_to_canonical_map) ==
  {synonym_to_canonical_map[Lower(source_metrics[n].s)] :
     n \in {k \in 1..Len(source_metrics) :
              Lower(source_metrics[k].s) \in DOMAIN synonym_to_canonical_map}}

\* lines 252-260 with a list in place of the set of line 254: every raw name of a
\* document adds 1 to its canonical metric
CanonicalCounts_PerName(per_doc, synonym_to_canonical_map) ==
  LET names == UNION {{<<n, k>> : k \in 1..Len(per_doc[n].metrics)} : n \in 1..Len(per_doc)}
      hits == {h \in names :
                 Lower(per_doc[h[1]].metrics[h[2]].s) \in DOMAIN synonym_to_canonical_map}
      of(h) == synonym_to_canonical_map[Lower(per_doc[h[1]].metrics[h[2]].s)]
  IN [c \in {of(h) : h \in hits} |-> Cardinality({h \in hits : of(h) = c})]

\* lines 252-260: canonical_counts
CanonicalCounts(per_doc, synonym_to_canonical_map) ==
  LET in_doc(n) == CanonicalMetricsInDoc(per_doc[n].metrics, synonym_to_canonical_map)
      names == UNION {in_doc(n) : n \in 1..Len(per_doc)}
  IN [c \in names |-> Cardinality({n \in 1..Len(per_doc) : c \in in_doc(n)})]

\* lines 266-270, a row of metrics_df; the prevalence count / total * 100 is kept as
\* the fraction num / den
MetricRow(name, count, total) ==
  [metric_name |-> name, found_in_docs |-> count,
   prevalence |-> [num |-> count * 100, den |-> total]]

\* line 271 left out: the rows in any order
SortedTables_Unsorted(canonical_counts, total) ==
  LET names == DOMAIN canonical_counts
      orders == {f \in [1..Cardinality(names) -> names] : Injective(f)}
  IN {[n \in DOMAIN f |-> MetricRow(f[n], canonical_counts[f[n]], total)] : f \in orders}

\* line 271: the orders sort_values(by="Found in # Docs", ascending=False) may give
\* the rows, those of equal count having come out of a set in any order
SortedTables(canonical_counts, total) ==
  LET names == DOMAIN canonical_counts
      orders == {f \in [1..Cardinality(names) -> names] :
                   /\ Injective(f)
                   /\ \A a, b \in DOMAIN f :
                        a < b => canonical_counts[f[a]] >= canonical_counts[f[b]]}
  IN {[n \in DOMAIN f |-> MetricRow(f[n], canonical_counts[f[n]], total)] : f \in orders}

\* lines 225-273: the results the function may return or raise with normalized_map
LibraryResults(normalized_map, per_doc, total) ==
  IF ~Truthy(normalized_map)
  THEN {Returned(<<DataFrame(<<>>), PyStr(S_NormalizationFailed)>>)}
  ELSE IF normalized_map.k # "dict" THEN {Raised("AttributeError")}
  ELSE LET synonyms == SynonymPairs(DictItems(normalized_map))
       IN IF synonyms.exc # "" THEN {Raised(synonyms.exc)}
          ELSE LET canonical_counts == CanonicalCounts(per_doc, SynonymMap(synonyms.pairs))
               IN IF DOMAIN canonical_counts = {}
                  THEN {Returned(<<DataFrame(<<>>), PyStr(S_CouldNotCount)>>)}
                  ELSE {Returned(<<DataFrame(rows), PyStr(S_LibraryComplete)>>) :
                          rows \in SortedTables(canonical_counts, total)}

LibraryIdle ==
  /\ lpc = "idle"
  /\ library_sources = <<>>
  /\ library_index = 0
  /\ raw_metrics_per_doc = <<>>
  /\ library_calls = <<>>
  /\ library_result = NoResult

LibraryReturn(res) ==
  /\ lpc' = "done"
  /\ library_result' = res

\* what a step of discover_and_normalize_metrics_from_library cannot touch
outsideLibrary ==
  <<sessionVars, extractVars, analyzeVars, tableVars, findVars, chunkVars, embedVars,
    createVars, batchVars>>

\* the call discover_and_normalize_metrics_from_library()
CallLibrary ==
  /\ lpc = "idle"
  /\ lpc' = "start"
  /\ UNCHANGED <<outsideLibrary, discoverVars, library_sources, library_index,
                 raw_metrics_per_doc, library_calls, library_result>>

\* lines 191-207
LibraryStart ==
  /\ lpc = "start"
  /\ IF vector_store.k = "none"
     THEN /\ LibraryReturn(Returned(<<PyNone, PyStr(S_LibraryNoStore)>>))
          /\ UNCHANGED <<library_sources, library_index>>
     ELSE IF ~llm
     THEN /\ LibraryReturn(Returned(<<PyNone, PyStr(S_LibraryNoLLM)>>))
          /\ UNCHANGED <<library_sources, library_index>>
     ELSE /\ library_sources' = UniqueSources(vector_store.docs)
          /\ IF UniqueSources(vector_store.docs) = <<>>
             THEN /\ LibraryReturn(Returned(<<PyNone, PyStr(S_NoDocuments)>>))
                  /\ UNCHANGED library_index
             ELSE /\ lpc' = "loop"
                  /\ library_index' = 1
                  /\ UNCHANGED library_result
  /\ UNCHANGED <<outsideLibrary, discoverVars, raw_metrics_per_doc, library_calls>>

\* lines 209-219: the next source's discover_metrics_in_doc, or the end of Phase 1
LibraryLoop ==
  /\ lpc = "loop"
  /\ IF library_index <= Len(library_sources)
     THEN /\ EnterDiscover(library_sources[library_index])
          /\ lpc' = "discovering"
          /\ UNCHANGED library_result
     ELSE /\ IF AllRawMetrics(raw_metrics_per_doc) = <<>>
             THEN LibraryReturn(Returned(<<DataFrame(<<>>), PyStr(S_NoMetricsFound)>>))
             ELSE lpc' = "normalize" /\ UNCHANGED library_result
          /\ UNCHANGED discoverVars
  /\ UNCHANGED <<outsideLibrary, library_sources, library_index, raw_metrics_per_doc,
                 library_calls>>

\* the frame of discover_metrics_in_doc is gone once its caller has the result
LeaveDiscover ==
  /\ dpc' = "idle"
  /\ discover_source_url' = <<>>
  /\ context_string' = <<>>
  /\ discover_calls' = <<>>
  /\ discover_result' = NoResult

\* lines 211-213: back from discover_metrics_in_doc
LibraryAfterDiscover ==
  /\ lpc = "discovering"
  /\ dpc = "done"
  /\ LET metrics_list == discover_result.ret[1]
     IN raw_metrics_per_doc' =
          IF Truthy(metrics_list)
          THEN Append(raw_metrics_per_doc,
                      [source |-> library_sources[library_index],
                       metrics |-> metrics_list.items])
          ELSE raw_metrics_per_doc
  /\ LeaveDiscover
  /\ library_index' = library_index + 1
  /\ lpc' = "loop"
  /\ UNCHANGED <<outsideLibrary, library_sources, library_calls, library_result>>

\* lines 221-273: Phase 2 and Phase 3
LibraryNormalize ==
  /\ lpc = "normalize"
  /\ LET unique_metrics == UniqueMetrics(AllRawMetrics(raw_metrics_per_doc))
     IN IF unique_metrics = <<>>
        THEN /\ LibraryReturn(Returned(<<DataFrame(<<>>), PyStr(S_NormalizationFailed)>>))
             /\ UNCHANGED library_calls
        ELSE \E out \in LlmInvoke(NormalizerOutputs) :
               /\ library_calls' = Append(library_calls, InvokeCall(unique_metrics, out))
               /\ \E res \in LibraryResults(normalize_metrics(out), raw_metrics_per_doc,
                                            Len(library_sources)) :
                    LibraryReturn(res)
  /\ UNCHANGED <<outsideLibrary, discoverVars, library_sources, library_index,
                 raw_metrics_per_doc>>

LibrarySteps ==
  \/ LibraryStart
  \/ LibraryLoop
  \/ LibraryAfterDiscover
  \/ LibraryNormalize

(***************************************************************************)
(* find_relevant_table_titles                                              *)
(***************************************************************************)
TOP_K == 1

FUZZY_NUM == 3

FUZZY_DEN == 10

\* the lists of titles the function is given
TitleLists ==
  { <<>>, <<Title1, Title2, Title3>>, <<Title1, Title2, Title3, Title4, Title5, Title6>> }

FindResponses ==
  { Resp259, Resp2, Resp9, Resp0, RespMinus3, RespTable4, RespWeight, RespZzz, RespBlank,
    Resp1Space2, Resp3And1 }

\* text.find(needle) for a needle of several characters: the 0-based index, or -1
FindSub(t, needle) ==
  IF Contains(t, needle)
  THEN CHOOSE a \in 0..(Len(t) - Len(needle)) :
         /\ SubSeq(t, a + 1, a + Len(needle)) = needle
         /\ \A b \in 0..(a - 1) : SubSeq(t, b + 1, b + Len(needle)) # needle
  ELSE -1

\* lines 640, 708: title.split("] ", 1)[1] if "] " in title else title
CleanTitle(title) ==
  IF Contains(title, PrefixEnd)
  THEN Slice(title, FindSub(title, PrefixEnd) + Len(PrefixEnd), Len(title))
  ELSE title

RECURSIVE Split(_, _)
\* text.split(c) for a separator of one character
Split(t, c) ==
  IF Find(t, c) = -1 THEN <<t>>
  ELSE <<Slice(t, 0, Find(t, c))>> \o Split(Slice(t, Find(t, c) + 1, Len(t)), c)

\* int(token): an optional sign, then digits that single underscores may separate;
\* ok |-> FALSE stands for ValueError
IntOf(token) ==
  LET u == Strip(token)
      signed == u # <<>> /\ u[1] \in {"+", "-"}
      body == IF signed THEN Tail(u) ELSE u
      wellformed ==
        /\ body # <<>>
        /\ \A n \in 1..Len(body) :
             \/ body[n] \in Digits
             \/ /\ body[n] = "_"
                /\ 1 < n /\ n < Len(body)
                /\ body[n - 1] \in Digits /\ body[n + 1] \in Digits
      magnitude == NatOf(SelectSeq(body, LAMBDA c : c \in Digits))
  IN IF ~wellformed THEN [ok |-> FALSE, n |-> 0]
     ELSE [ok |-> TRUE, n |-> IF signed /\ u[1] = "-" THEN 0 - magnitude ELSE magnitude]

\* line 677: the tokens of response_content.replace(' ', '').split(',')
NumberTokens(response) == Split(SelectSeq(response, LAMBDA c : c # " "), ",")

\* line 677: whether one of the int() calls raises ValueError
StrictParseFails(response) ==
  \E n \in 1..Len(NumberTokens(response)) : ~IntOf(NumberTokens(response)[n]).ok

\* list[idx] of Python: a negative idx counts from the end, and an idx outside the list
\* is an IndexError (ok |-> FALSE)
PyIndex(list, idx) ==
  IF 0 <= idx /\ idx < Len(list) THEN [ok |-> TRUE, v |-> list[idx + 1]]
  ELSE IF idx < 0 /\ 0 - idx <= Len(list) THEN [ok |-> TRUE, v |-> list[Len(list) + idx + 1]]
  ELSE [ok |-> FALSE, v |-> <<>>]

\* line 678 testing n <= len(all_titles) alone
InRangeNumbers_UpperOnly(response, titles) ==
  SelectSeq([n \in 1..Len(NumberTokens(response)) |-> IntOf(NumberTokens(response)[n]).n],
            LAMBDA n : n <= Len(titles))

\* line 678: the numbers n with 0 < n <= len(all_titles), in the order of the response
InRangeNumbers(response, titles) ==
  SelectSeq([n \in 1..Len(NumberTokens(response)) |-> IntOf(NumberTokens(response)[n]).n],
            LAMBDA n : 0 < n /\ n <= Len(titles))

\* lines 678-681 with a numeric method that never selects a title
SelectedNumbers_None(response, titles) == <<>>

\* lines 678-681: selected_indices (as 1-based numbers) after the cut of line 681
SelectedNumbers(response, titles) ==
  SubSeq(InRangeNumbers(response, titles), 1, Min(TOP_K, Len(InRangeNumbers(response, titles))))

\* a character of \w
WordChar(c) == c \in Letters \cup Digits \cup {"_"}

RECURSIVE DigitRunEnd(_, _)
\* the place of the last digit of the run of digits that begins at pos
DigitRunEnd(t, pos) ==
  IF pos < Len(t) /\ t[pos + 1] \in Digits THEN DigitRunEnd(t, pos + 1) ELSE pos

\* line 692: the places where re.findall(r'\b(\d+)\b', response_content) matches: the
\* runs of digits with no word character on either side
NumberStarts(t) ==
  {a \in 1..Len(t) :
     /\ t[a] \in Digits
     /\ a = 1 \/ ~WordChar(t[a - 1])
     /\ DigitRunEnd(t, a) = Len(t) \/ ~WordChar(t[DigitRunEnd(t, a) + 1])}

\* lines 692-694: int(numbers[0]), when the response has a number
FirstNumber(t) ==
  IF NumberStarts(t) = {} THEN [found |-> FALSE, n |-> 0]
  ELSE LET a == CHOOSE x \in NumberStarts(t) : \A y \in NumberStarts(t) : x <= y
       IN [found |-> TRUE, n |-> NatOf(SubSeq(t, a, DigitRunEnd(t, a)))]

RECURSIVE CommonRun(_, _, _, _, _, _)
\* the length of the longest common run of a[i..ahi] and b[j..bhi] that begins at i, j
CommonRun(a, i, ahi, b, j, bhi) ==
  IF i > ahi \/ j > bhi \/ a[i] # b[j] THEN 0
  ELSE 1 + CommonRun(a, i + 1, ahi, b, j + 1, bhi)

RECURSIVE MatchedChars(_, _, _, _, _, _)
\* difflib.SequenceMatcher: the characters in the matching blocks of a[alo..ahi] and
\* b[blo..bhi]: the longest block, the earliest in a and then in b among the longest,
\* then the same to its left and to its right
MatchedChars(a, alo, ahi, b, blo, bhi) ==
  IF alo > ahi \/ blo > bhi THEN 0
  ELSE LET places == (alo..ahi) \X (blo..bhi)
           run(p) == CommonRun(a, p[1], ahi, b, p[2], bhi)
           best == CHOOSE p \in places :
                     \A q \in places :
                       \/ run(p) > run(q)
                       \/ run(p) = run(q) /\ p[1] < q[1]
                       \/ run(p) = run(q) /\ p[1] = q[1] /\ p[2] <= q[2]
           k == run(best)
       IN IF k = 0 THEN 0
          ELSE k + MatchedChars(a, alo, best[1] - 1, b, blo, best[2] - 1)
                 + MatchedChars(a, best[1] + k, ahi, b, best[2] + k, bhi)

\* SequenceMatcher(None, a, b).ratio() = 2.0 * M / T as the fraction num / den, 1.0
\* for two empty texts
Ratio(a, b) ==
  IF Len(a) + Len(b) = 0 THEN [num |-> 1, den |-> 1]
  ELSE [num |-> 2 * MatchedChars(a, 1, Len(a), b, 1, Len(b)), den |-> Len(a) + Len(b)]

\* x > y for two fractions
Greater(x, y) == x.num * y.den > y.num * x.den

\* lines 707-712 returning the cleaned title in place of the original one
RECURSIVE BestFuzzyMatch_Clean(_, _, _)
BestFuzzyMatch_Clean(titles, response, best) ==
  IF titles = <<>> THEN best
  ELSE LET score == Ratio(Lower(response), Lower(CleanTitle(Head(titles))))
       IN BestFuzzyMatch_Clean(Tail(titles), response,
            IF Greater(score, best.score)
            THEN [found |-> TRUE, match |-> CleanTitle(Head(titles)), score |-> score]
            ELSE best)

RECURSIVE BestFuzzyMatch(_, _, _)
\* lines 704-712: best_match and best_score after the titles that remain
BestFuzzyMatch(titles, response, best) ==
  IF titles = <<>> THEN best
  ELSE LET score == Ratio(Lower(response), Lower(CleanTitle(Head(titles))))
       IN BestFuzzyMatch(Tail(titles), response,
            IF Greater(score, best.score)
            THEN [found |-> TRUE, match |-> Head(titles), score |-> score]
            ELSE best)

\* lines 704-705: best_match = None, best_score = 0
NoMatch == [found |-> FALSE, match |-> <<>>, score |-> [num |-> 0, den |-> 1]]

\* lines 721-724, 735-738: the titles that contain the outcome, case ignored
KeywordMatches(titles, outcome) ==
  SelectSeq(titles, LAMBDA title : Contains(Lower(title), Lower(outcome)))

\* a list of titles as the function returns it
TitleList(titles) == PyList([n \in 1..Len(titles) |-> PyStr(titles[n])])

FindIdle ==
  /\ fpc = "idle"
  /\ all_titles = <<>>
  /\ find_user_outcome = <<>>
  /\ response_content = <<>>
  /\ strategies = <<>>
  /\ find_result = NoResult

FindReturn(res) ==
  /\ fpc' = "done"
  /\ find_result' = res

\* what a step of find_relevant_table_titles cannot touch
outsideFind ==
  <<sessionVars, extractVars, analyzeVars, tableVars, discoverVars, libraryVars, chunkVars,
    embedVars, createVars, batchVars>>

\* the call find_relevant_table_titles(all_titles, user_outcome_of_interest)
CallFind ==
  /\ fpc = "idle"
  /\ \E titles \in TitleLists, outcome \in UserOutcomes :
       /\ all_titles' = titles
       /\ find_user_outcome' = outcome
  /\ fpc' = "start"
  /\ UNCHANGED <<outsideFind, response_content, strategies, find_result>>

\* lines 635-670: the prompt and the completion
FindStart ==
  /\ fpc = "start"
  /\ IF ~llm
     THEN /\ FindReturn(Returned(<<PyNone, PyStr(S_LLMNotInitialized)>>))
          /\ UNCHANGED response_content
     ELSE \E out \in LlmInvoke(FindResponses) :
            IF out.raised
            THEN /\ fpc' = "fallback"
                 /\ UNCHANGED <<response_content, find_result>>
            ELSE /\ response_content' = Strip(out.ret[1].s)
                 /\ fpc' = "numeric"
                 /\ UNCHANGED find_result
  /\ UNCHANGED <<outsideFind, all_titles, find_user_outcome, strategies>>

\* lines 674-688: Method A
FindNumeric ==
  /\ fpc = "numeric"
  /\ strategies' = Append(strategies, "numeric")
  /\ IF ~StrictParseFails(response_content)
        /\ SelectedNumbers(response_content, all_titles) # <<>>
     THEN LET selected == SelectedNumbers(response_content, all_titles)
              picked == [n \in 1..Len(selected) |-> PyIndex(all_titles, selected[n] - 1)]
          IN IF \A n \in 1..Len(picked) : picked[n].ok
             THEN FindReturn(Returned(
                    <<TitleList([n \in 1..Len(picked) |-> picked[n].v]),
                      PyStr(S_TitlesIdentified)>>))
             ELSE fpc' = "fallback" /\ UNCHANGED find_result
     ELSE fpc' = "regex" /\ UNCHANGED find_result
  /\ UNCHANGED <<outsideFind, all_titles, find_user_outcome, response_content>>

\* lines 690-698: Method B
FindRegex ==
  /\ fpc = "regex"
  /\ strategies' = Append(strategies, "regex")
  /\ LET first == FirstNumber(response_content)
     IN IF first.found /\ 0 <= first.n - 1 /\ first.n - 1 < Len(all_titles)
        THEN FindReturn(Returned(<<TitleList(<<PyIndex(all_titles, first.n - 1).v>>),
                                   PyStr(S_TitleIdentified)>>))
        ELSE fpc' = "fuzzy" /\ UNCHANGED find_result
  /\ UNCHANGED <<outsideFind, all_titles, find_user_outcome, response_content>>

\* lines 700-717: Method C
FindFuzzy ==
  /\ fpc = "fuzzy"
  /\ strategies' = Append(strategies, "fuzzy")
  /\ LET best == BestFuzzyMatch(all_titles, response_content, NoMatch)
     IN IF best.found /\ best.match # <<>>
           /\ Greater(best.score, [num |-> FUZZY_NUM, den |-> FUZZY_DEN])
        THEN FindReturn(Returned(<<TitleList(<<best.match>>), PyStr(S_UsedFuzzy)>>))
        ELSE fpc' = "keyword" /\ UNCHANGED find_result
  /\ UNCHANGED <<outsideFind, all_titles, find_user_outcome, response_content>>

\* lines 719-728: Method D
FindKeyword ==
  /\ fpc = "keyword"
  /\ strategies' = Append(strategies, "keyword")
  /\ LET keyword_matches == KeywordMatches(all_titles, find_user_outcome)
     IN IF keyword_matches # <<>>
        THEN FindReturn(Returned(<<TitleList(keyword_matches), PyStr(S_UsedKeyword)>>))
        ELSE FindReturn(Returned(<<TitleList(<<>>), PyStr(S_NoRelevantTitles)>>))
  /\ UNCHANGED <<outsideFind, all_titles, find_user_outcome, response_content>>

\* lines 730-743: the keyword matching after an exception
FindFallback ==
  /\ fpc = "fallback"
  /\ strategies' = Append(strategies, "fallback")
  /\ LET fallback_titles == KeywordMatches(all_titles, find_user_outcome)
     IN IF fallback_titles # <<>>
        THEN FindReturn(Returned(<<TitleList(fallback_titles),
                                   PyStr(S_UsedKeywordAfterError)>>))
        ELSE FindReturn(Returned(<<TitleList(<<>>), PyStr(S_NoMatchesEvenKeyword)>>))
  /\ UNCHANGED <<outsideFind, all_titles, find_user_outcome, response_content>>

FindSteps ==
  \/ FindStart
  \/ FindNumeric
  \/ FindRegex
  \/ FindFuzzy
  \/ FindKeyword
  \/ FindFallback

(***************************************************************************)
(* chunk_text (data_ingestor.py)                                           *)
(***************************************************************************)
\* the (section_title, section_text) pairs the inputs are made of
SectionPool ==
  { <<TitleMethods, BodyTwo>>, <<TitleResults, BodyIndented>>, <<TitleIntro, BodyLong>>,
    <<TitleBlank, BodyBlank>>, <<TitleMixed, BodyMixed>> }

\* the sections_data of a call: no section, one or two
SectionInputs ==
  {<<>>} \cup {<<s>> : s \in SectionPool} \cup {<<s, t>> : s \in SectionPool, t \in SectionPool}

\* the chunk_size of a call
ChunkSizes == {5, 9}

RECURSIVE SplitSub(_, _)
\* text.split(sep) for a separator of several characters
SplitSub(t, sep) ==
  IF FindSub(t, sep) = -1 THEN <<t>>
  ELSE <<Slice(t, 0, FindSub(t, sep))>>
         \o SplitSub(Slice(t, FindSub(t, sep) + Len(sep), Len(t)), sep)

\* line 346: whether the paragraph still fits in the current chunk
Fits(current, para, size) == Len(current) + Len(para) + 2 <= size

\* line 347 forgetting the paragraphs gathered so far
AddParagraph_Replace(current, para) == para \o ParaSep

\* line 347: current_chunk += para + "\n\n"
AddParagraph(current, para) == current \o para \o ParaSep

\* lines 349, 351 tagging every chunk with the title of the first section
ChunkRecord_FirstTitle(text, section_title) ==
  [text |-> Strip(text), section |-> sections_data[1][1]]

\* lines 349, 351: {"text": current_chunk.strip(), "section": section_title}
ChunkRecord(text, section_title) == [text |-> Strip(text), section |-> section_title]

ChunkIdle ==
  /\ chunk_pc = "idle"
  /\ sections_data = <<>>
  /\ chunk_size = 0
  /\ section_index = 0
  /\ paragraphs = <<>>
  /\ para_index = 0
  /\ current_chunk = <<>>
  /\ all_chunks = <<>>
  /\ chunk_result = NoResult

\* what a step of chunk_text cannot touch
outsideChunk ==
  <<sessionVars, extractVars, analyzeVars, tableVars, discoverVars, libraryVars, findVars,
    embedVars, createVars, batchVars>>

\* the call chunk_text(sections_data, chunk_size)
CallChunk ==
  /\ chunk_pc = "idle"
  /\ \E data \in SectionInputs, size \in ChunkSizes :
       /\ sections_data' = data
       /\ chunk_size' = size
  /\ chunk_pc' = "start"
  /\ UNCHANGED <<outsideChunk, section_index, paragraphs, para_index, current_chunk,
                 all_chunks, chunk_result>>

\* lines 338-339
ChunkStart ==
  /\ chunk_pc = "start"
  /\ IF sections_data = <<>>
     THEN /\ chunk_pc' = "done"
          /\ chunk_result' = Returned(<<<<>>>>)
          /\ UNCHANGED <<section_index, all_chunks>>
     ELSE /\ chunk_pc' = "section"
          /\ all_chunks' = <<>>
          /\ section_index' = 1
          /\ UNCHANGED chunk_result
  /\ UNCHANGED <<outsideChunk, sections_data, chunk_size, paragraphs, para_index,
                 current_chunk>>

\* lines 340-343, 352: the next section, or the return after the last one
ChunkSection ==
  /\ chunk_pc = "section"
  /\ IF section_index > Len(sections_data)
     THEN /\ chunk_pc' = "done"
          /\ chunk_result' = Returned(<<all_chunks>>)
          /\ UNCHANGED <<section_index, paragraphs, para_index, current_chunk>>
     ELSE IF Strip(sections_data[section_index][2]) = <<>>
     THEN /\ section_index' = section_index + 1
          /\ UNCHANGED <<chunk_pc, chunk_result, paragraphs, para_index, current_chunk>>
     ELSE /\ current_chunk' = <<>>
          /\ paragraphs' = SplitSub(sections_data[section_index][2], ParaSep)
          /\ para_index' = 1
          /\ chunk_pc' = "paragraph"
          /\ UNCHANGED <<section_index, chunk_result>>
  /\ UNCHANGED <<outsideChunk, sections_data, chunk_size, all_chunks>>

\* lines 344-350: one paragraph of the section
ChunkParagraph ==
  /\ chunk_pc = "paragraph"
  /\ IF para_index > Len(paragraphs)
     THEN /\ chunk_pc' = "flush"
          /\ UNCHANGED <<para_index, current_chunk, all_chunks>>
     ELSE LET para == paragraphs[para_index]
          IN /\ para_index' = para_index + 1
             /\ UNCHANGED chunk_pc
             /\ IF Strip(para) = <<>>
                THEN UNCHANGED <<current_chunk, all_chunks>>
                ELSE IF Fits(current_chunk, para, chunk_size)
                THEN /\ current_chunk' = AddParagraph(current_chunk, para)
                     /\ UNCHANGED all_chunks
                ELSE /\ all_chunks' =
                          IF current_chunk # <<>>
                          THEN Append(all_chunks,
                                 ChunkRecord(current_chunk, sections_data[section_index][1]))
                          ELSE all_chunks
                     /\ current_chunk' = para \o ParaSep
  /\ UNCHANGED <<outsideChunk, sections_data, chunk_size, section_index, paragraphs,
                 chunk_result>>

\* line 351: the last chunk of the section
ChunkFlush ==
  /\ chunk_pc = "flush"
  /\ all_chunks' =
       IF Strip(current_chunk) # <<>>
       THEN Append(all_chunks, ChunkRecord(current_chunk, sections_data[section_index][1]))
       ELSE all_chunks
  /\ section_index' = section_index + 1
  /\ chunk_pc' = "section"
  /\ UNCHANGED <<outsideChunk, sections_data, chunk_size, paragraphs, para_index,
                 current_chunk, chunk_result>>

ChunkSteps ==
  \/ ChunkStart
  \/ ChunkSection
  \/ ChunkParagraph
  \/ ChunkFlush

(***************************************************************************)
(* CustomHuggingFaceEmbeddings and create_vector_store                     *)
(* (vector_store_manager.py)                                               *)
(***************************************************************************)
\* the vector of a text, as the embedding capability computes it
Vector(text) == PyList(<<PyInt(Len(text))>>)

\* what the POST of lines 92-98 can give for the texts: an exception of requests, a
\* body that is not JSON, or a JSON value: an object, a list of numbers, no vector, a
\* vector per text, one vector too few, one vector too many
EmbedResponses(texts) ==
  LET vectors == [n \in 1..Len(texts) |-> Vector(texts[n])]
  IN { [kind |-> "request_error", json |-> PyNone],
       [kind |-> "non_json", json |-> PyNone],
       [kind |-> "json", json |-> PyDict(<<>>)],
       [kind |-> "json", json |-> PyList(<<PyInt(1)>>)],
       [kind |-> "json", json |-> PyList(<<>>)],
       [kind |-> "json", json |-> PyList(vectors)],
       [kind |-> "json", json |-> PyList(SubSeq(vectors, 1, Len(vectors) - 1))],
       [kind |-> "json", json |-> PyList(Append(vectors, Vector(<<>>)))] }

\* no response yet
NoResponse == [kind |-> "none", json |-> PyNone]

\* lines 88-113: _embed(texts), given the response of the API
embed(texts, response) ==
  IF response.kind = "json"
       /\ response.json.k = "list"
       /\ \A n \in 1..Len(response.json.items) : response.json.items[n].k = "list"
  THEN Returned(<<response.json>>)
  ELSE Returned(<<PyNone>>)

\* lines 115-117
embed_documents(texts, response) == embed(texts, response)

\* lines 119-122: result[0] if result else []
embed_query(text, response) ==
  LET result == embed(<<text>>, response)
  IN IF result.raised THEN result
     ELSE IF Truthy(result.ret[1]) THEN Returned(<<result.ret[1].items[1]>>)
     ELSE Returned(<<PyList(<<>>)>>)

\* the texts the embedding functions are called with
EmbedTexts == {TextBMI, TextAge}

EmbedIdle ==
  /\ embed_pc = "idle"
  /\ embed_method = ""
  /\ embed_texts = <<>>
  /\ api_response = NoResponse
  /\ embed_result = NoResult

\* line 153: Document(page_content=chunk, metadata={"source": source_url})
Document(chunk, url) == [page_content |-> chunk, metadata |-> [source |-> url]]

\* line 153
Documents(chunks, url) == [n \in 1..Len(chunks) |-> Document(chunks[n], url)]

\* line 159: what vector_store.add_documents can do with the embeddings that
\* embed_documents returned: "raise" leaves the collection as it was, "store" adds the
\* documents.  Without a vector for every document nothing can be stored; with a
\* vector too many the outcome is the library's
ChromaOutcomes(documents, embeddings) ==
  IF embeddings.raised THEN {"raise"}
  ELSE IF embeddings.ret[1].k # "list" THEN {"raise"}
  ELSE IF Len(embeddings.ret[1].items) < Len(documents) THEN {"raise"}
  ELSE {"store", "raise"}

\* the vector_store that line 161 returns
StoreHandle == [k |-> "store"]

\* the text_chunks of a call
ChunkBatches == {<<>>, <<TextBMI>>, <<TextBMI, TextAge>>}

\* the documents the collection can hold: a call is made while it holds fewer
MaxStored == 3

CreateIdle ==
  /\ create_pc = "idle"
  /\ text_chunks = <<>>
  /\ create_source_url = <<>>
  /\ create_response = NoResponse
  /\ collection = <<>>
  /\ create_result = NoResult

\* what a step of the embedding functions cannot touch
outsideEmbed ==
  <<sessionVars, extractVars, analyzeVars, tableVars, discoverVars, libraryVars, findVars,
    chunkVars, createVars, batchVars>>

\* what a step of create_vector_store cannot touch
outsideCreate ==
  <<sessionVars, extractVars, analyzeVars, tableVars, discoverVars, libraryVars, findVars,
    chunkVars, embedVars, batchVars>>

\* the call embed_documents(texts)
CallEmbedDocuments ==
  /\ embed_pc = "idle"
  /\ \E texts \in {<<>>} \cup {<<t>> : t \in EmbedTexts} \cup (EmbedTexts \X EmbedTexts) :
       embed_texts' = texts
  /\ embed_method' = "embed_documents"
  /\ embed_pc' = "request"
  /\ UNCHANGED <<outsideEmbed, api_response, embed_result>>

\* the call embed_query(text)
CallEmbedQuery ==
  /\ embed_pc = "idle"
  /\ \E text \in EmbedTexts : embed_texts' = <<text>>
  /\ embed_method' = "embed_query"
  /\ embed_pc' = "request"
  /\ UNCHANGED <<outsideEmbed, api_response, embed_result>>

\* lines 88-122: the request, and what the function makes of the response
EmbedRequest ==
  /\ embed_pc = "request"
  /\ \E response \in EmbedResponses(embed_texts) :
       /\ api_response' = response
       /\ embed_result' =
            IF embed_method = "embed_query"
            THEN embed_query(embed_texts[1], response)
            ELSE embed_documents(embed_texts, response)
  /\ embed_pc' = "done"
  /\ UNCHANGED <<outsideEmbed, embed_method, embed_texts>>

\* the call create_vector_store(text_chunks, source_url)
CallCreate ==
  /\ create_pc \in {"idle", "done"}
  /\ Len(collection) < MaxStored
  /\ \E chunks \in ChunkBatches, url \in SourceUrls :
       /\ text_chunks' = chunks
       /\ create_source_url' = url
  /\ create_pc' = "start"
  /\ create_result' = NoResult
  /\ create_response' = NoResponse
  /\ UNCHANGED <<outsideCreate, collection>>

\* lines 151-157: no chunk, or no embedding model when the token is missing
CreateStart ==
  /\ create_pc = "start"
  /\ IF text_chunks = <<>>
     THEN /\ create_pc' = "done"
          /\ create_result' = Returned(<<PyNone, PyStr(S_NoTextChunks)>>)
     ELSE \E embedding_model \in BOOLEAN :
            IF ~embedding_model
            THEN /\ create_pc' = "done"
                 /\ create_result' = Returned(<<PyNone, PyStr(S_EmbeddingInitFailed)>>)
            ELSE /\ create_pc' = "add"
                 /\ UNCHANGED create_result
  /\ UNCHANGED <<outsideCreate, text_chunks, create_source_url, collection, create_response>>

\* line 159, and lines 162-163 when it raises
CreateAdd ==
  /\ create_pc = "add"
  /\ \E response \in EmbedResponses(text_chunks) :
       /\ create_response' = response
       /\ \E outcome \in ChromaOutcomes(Documents(text_chunks, create_source_url),
                                        embed_documents(text_chunks, response)) :
            IF outcome = "store"
            THEN /\ collection' = collection \o Documents(text_chunks, create_source_url)
                 /\ create_pc' = "persist"
                 /\ UNCHANGED create_result
            ELSE /\ create_pc' = "done"
                 /\ create_result' =
                      Returned(<<PyNone, PyStr(S_FailedCreate \o StoreError)>>)
                 /\ UNCHANGED collection
  /\ UNCHANGED <<outsideCreate, text_chunks, create_source_url>>

\* lines 160-163: persist() and the return
CreatePersist ==
  /\ create_pc = "persist"
  /\ create_pc' = "done"
  /\ \E persisted \in BOOLEAN :
       create_result' =
         IF persisted
         THEN Returned(<<StoreHandle,
                         PyStr(S_AddedPrefix \o NatStr(Len(text_chunks)) \o S_AddedSuffix)>>)
         ELSE Returned(<<PyNone, PyStr(S_FailedCreate \o PersistError)>>)
  /\ UNCHANGED <<outsideCreate, text_chunks, create_source_url, collection, create_response>>

CreateSteps ==
  \/ CreateStart
  \/ CreateAdd
  \/ CreatePersist

(***************************************************************************)
(* process_single_link and the page's "Process & Add ALL Links" batch      *)
(***************************************************************************)
\* the links a session can have prepared
LinkPool == {LinkPmc, LinkPmcNoId, LinkTrial, LinkTrialNoId, LinkOther}

\* st.session_state['links_for_rag'] when the button shows (line 100): one link or two
LinkLists == {<<a>> : a \in LinkPool} \cup {<<a, b>> : a \in LinkPool, b \in LinkPool}

\* chunk_text's default chunk_size
DEFAULT_CHUNK_SIZE == 1500

\* re.search(prefix + r'\d+', url): the first match, or None
SearchId(url, prefix) ==
  LET starts == {a \in 0..(Len(url) - Len(prefix) - 1) :
                   /\ SubSeq(url, a + 1, a + Len(prefix)) = prefix
                   /\ url[a + Len(prefix) + 1] \in Digits}
  IN IF starts = {} THEN PyNone
     ELSE LET a == CHOOSE a \in starts : \A b \in starts : a <= b
          IN PyStr(SubSeq(url, a + 1, DigitRunEnd(url, a + Len(prefix) + 1)))

\* parse_pmc_xml on the XML of an article: the title first (of no text when the
\* article-title tag is empty), then the sections with content
PmcParsed ==
  { <<<<TitleTitle, BodyPaperTitle>>>>,
    <<<<TitleTitle, <<>>>>>>,
    <<<<TitleTitle, BodyPaperTitle>>, <<TitleResults, BodyTwo>>>> }

\* parse_clinical_trial_record on the answer of the API: the title and the sections
TrialParsed ==
  { <<<<TitleTitle, BodyTrialTitle>>>>,
    <<<<TitleTitle, BodyTrialTitle>>, <<TitleResults, BodyIndented>>>> }

\* a return of process_single_link before chunk_text
Failure(message) == [failed |-> TRUE, ret |-> <<PyNone, PyStr(message)>>, sections |-> <<>>]

\* the sections process_single_link hands to chunk_text
Parsed(data) == [failed |-> FALSE, ret |-> <<>>, sections |-> data]

\* lines 354-385: what process_single_link(url) can do up to its call of chunk_text,
\* the fetch being the network's choice
ProcessOutcomes(url) ==
  IF Contains(url, S_PmcArticles) \/ Contains(url, S_PmcHost)
  THEN IF SearchId(url, S_PMC) = PyNone
       THEN {Failure(S_NoPmcId)}
       ELSE {Failure(S_FailedFetchXml \o SearchId(url, S_PMC).s)}
              \cup {Parsed(data) : data \in PmcParsed}
  ELSE IF Contains(url, S_TrialStudy)
  THEN IF SearchId(url, S_NCT) = PyNone
       THEN {Failure(S_NoNctId)}
       ELSE {Failure(S_ApiRequestFailed \o FetchError)}
              \cup {Parsed(data) : data \in TrialParsed}
  ELSE {Failure(S_UnrecognizedUrl)}

\* line 390: the text for display
FullText(data) ==
  Join([n \in 1..Len(data) |-> S_Heading \o data[n][1] \o ParaSep \o data[n][2]], ParaSep)

\* a failure of process_single_link: its first value is None (lines 370-385)
ProcessFailed(ret) == ret[1] = PyNone

\* what add_to_in_memory_vector_store(text_chunks, link) can answer: a store and a
\* status, no store and a status, or an exception
InsertOutcomes ==
  { Returned(<<StoreHandle, PyStr(S_Added)>>), Returned(<<PyNone, PyStr(InsertError)>>),
    Raised("Exception") }

BatchIdle ==
  /\ batch_pc = "idle"
  /\ links = <<>>
  /\ link_index = 0
  /\ success_count = 0
  /\ process_log = <<>>
  /\ insert_calls = <<>>
  /\ batch_errors = <<>>
  /\ batch_result = NoResult

\* what a step of the batch cannot touch
outsideBatch ==
  <<sessionVars, extractVars, analyzeVars, tableVars, discoverVars, libraryVars, findVars,
    embedVars, createVars>>

\* the call chunk_text(sections_data) of line 387
EnterChunk(data) ==
  /\ chunk_pc' = "start"
  /\ sections_data' = data
  /\ chunk_size' = DEFAULT_CHUNK_SIZE
  /\ UNCHANGED <<section_index, paragraphs, para_index, current_chunk, all_chunks,
                 chunk_result>>

\* the frame of chunk_text is gone once its caller has the result
LeaveChunk ==
  /\ chunk_pc' = "idle"
  /\ sections_data' = <<>>
  /\ chunk_size' = 0
  /\ section_index' = 0
  /\ paragraphs' = <<>>
  /\ para_index' = 0
  /\ current_chunk' = <<>>
  /\ all_chunks' = <<>>
  /\ chunk_result' = NoResult

\* lines 107-110: the button, shown when links are prepared
CallBatch ==
  /\ batch_pc = "idle"
  /\ \E prepared \in LinkLists : links' = prepared
  /\ link_index' = 1
  /\ success_count' = 0
  /\ batch_pc' = "process"
  /\ UNCHANGED <<outsideBatch, chunkVars, process_log, insert_calls, batch_errors,
                 batch_result>>

\* lines 112-117 with lines 354-385 of process_single_link, and lines 128-131 after
\* the last link
BatchProcess ==
  /\ batch_pc = "process"
  /\ IF link_index > Len(links)
     THEN /\ batch_pc' = "done"
          /\ batch_result' = Returned(<<>>)
          /\ UNCHANGED <<chunkVars, process_log>>
     ELSE /\ \E outcome \in ProcessOutcomes(links[link_index]) :
               IF outcome.failed
               THEN /\ process_log' = Append(process_log, outcome.ret)
                    /\ batch_pc' = "insert"
                    /\ UNCHANGED chunkVars
               ELSE /\ EnterChunk(outcome.sections)
                    /\ batch_pc' = "chunking"
                    /\ UNCHANGED process_log
          /\ UNCHANGED batch_result
  /\ UNCHANGED <<outsideBatch, links, link_index, success_count, insert_calls, batch_errors>>

\* lines 387-392: back from chunk_text
BatchAfterChunk ==
  /\ batch_pc = "chunking"
  /\ chunk_pc = "done"
  /\ process_log' =
       Append(process_log, <<PyStr(FullText(sections_data)), PyList(chunk_result.ret[1])>>)
  /\ LeaveChunk
  /\ batch_pc' = "insert"
  /\ UNCHANGED <<outsideBatch, links, link_index, success_count, insert_calls, batch_errors,
                 batch_result>>

\* lines 117-126: _, text_chunks = process_single_link(link) and the insert
BatchInsert ==
  /\ batch_pc = "insert"
  /\ LET text_chunks_of_link == process_log[link_index][2]
         link == links[link_index]
     IN IF Truthy(text_chunks_of_link)
        THEN \E answer \in InsertOutcomes :
               /\ insert_calls' =
                    Append(insert_calls,
                           [place |-> link_index, text_chunks |-> text_chunks_of_link,
                            link |-> link])
               /\ IF answer.raised
                  THEN /\ batch_pc' = "done"
                       /\ batch_result' = answer
                       /\ UNCHANGED <<link_index, success_count, batch_errors>>
                  ELSE /\ batch_pc' = "process"
                       /\ link_index' = link_index + 1
                       /\ UNCHANGED batch_result
                       /\ IF answer.ret[1] # PyNone
                          THEN /\ success_count' = success_count + 1
                               /\ UNCHANGED batch_errors
                          ELSE /\ batch_errors' =
                                    Append(batch_errors,
                                           S_FailedToAdd \o link \o S_Colon \o answer.ret[2].s)
                               /\ UNCHANGED success_count
        ELSE /\ batch_errors' = Append(batch_errors, S_FailedToProcess \o link)
             /\ batch_pc' = "process"
             /\ link_index' = link_index + 1
             /\ UNCHANGED <<success_count, insert_calls, batch_result>>
  /\ UNCHANGED <<outsideBatch, chunkVars, links, process_log>>

BatchSteps ==
  \/ BatchProcess
  \/ BatchAfterChunk
  \/ BatchInsert

(***************************************************************************)
(* The specifications: one per entry point, over the same session          *)
(***************************************************************************)
InitAll ==
  InitSession /\ ExtractIdle /\ AnalyzeIdle /\ TableIdle /\ DiscoverIdle /\ LibraryIdle
    /\ FindIdle /\ ChunkIdle /\ EmbedIdle /\ CreateIdle /\ BatchIdle

\* extract_outcome_from_doc called on the session
NextExtract == CallExtract \/ ExtractSteps

SpecExtract == InitAll /\ [][NextExtract]_vars

\* generate_outcome_table called on the session
NextTable ==
  \/ CallTable
  \/ TableSteps
  \/ ExtractSteps
  \/ AnalyzeSteps

SpecTable == InitAll /\ [][NextTable]_vars

\* discover_metrics_in_doc called on the session
NextDiscover == CallDiscover \/ DiscoverSteps

SpecDiscover == InitAll /\ [][NextDiscover]_vars

\* discover_and_normalize_metrics_from_library called on the session
NextLibrary == CallLibrary \/ LibrarySteps \/ DiscoverSteps

SpecLibrary == InitAll /\ [][NextLibrary]_vars

\* find_relevant_table_titles called on the session
NextFind == CallFind \/ FindSteps

SpecFind == InitAll /\ [][NextFind]_vars

\* chunk_text called on the sections of a document
NextChunk == CallChunk \/ ChunkSteps

SpecChunk == InitAll /\ [][NextChunk]_vars

\* embed_documents or embed_query called on the embedding model
NextEmbed == CallEmbedDocuments \/ CallEmbedQuery \/ EmbedRequest

SpecEmbed == InitAll /\ [][NextEmbed]_vars

\* create_vector_store called for one batch of chunks after the other
NextCreate == CallCreate \/ CreateSteps

SpecCreate == InitAll /\ [][NextCreate]_vars

\* the batch button pressed on the session's prepared links
NextBatch == CallBatch \/ BatchSteps \/ ChunkSteps

SpecBatch == InitAll /\ [][NextBatch]_vars

(***************************************************************************)
(* Properties of extract_outcome_from_doc, checked under SpecExtract       *)
(***************************************************************************)
SessionReady == vector_store.k = "store" /\ llm

LastCall == calls[Len(calls)]

\* the Stage 2 queries made so far: those of the source-scoped extractor retriever
Stage2Queries ==
  SelectSeq(calls, LAMBDA c : c.op = "query" /\ c.filter = ExtractorFilter(source_url))

\* Stage 2's retrieval (lines 326-345) has run to its end
Stage2Retrieved ==
  \/ xpc = "scoop"
  \/ /\ xpc = "done"
     /\ calls # <<>>
     /\ \/ LastCall.op = "invoke" /\ LastCall.prompt = "scoop"
        \/ extract_result.raised /\ extract_result.exc = "NameError"

TextsOf(docs) == [i \in 1..Len(docs) |-> docs[i].page_content]

\* C1: with a vector store and a language model in the session,
\* extract_outcome_from_doc never raises and the value it returns is a non-empty
\* string (the data block or an "N/A (...)" sentinel), never None.
C1_NeverRaisesNonEmptyString ==
  (xpc = "done" /\ SessionReady) =>
    /\ ~extract_result.raised
    /\ extract_result.ret[1].k = "str"
    /\ extract_result.ret[1].s # <<>>

\* the locator completion gave no usable name: it raised, its output does not parse
\* as a JSON object, or the object's exact_metric_name is missing, null or empty
LocatorFellBack(out) ==
  \/ out.raised
  \/ LET j == JsonLoads(clean_json_output(out.ret[1].s))
     IN \/ ~j.ok
        \/ j.val.k # "dict"
        \/ ~HasKey(j.val, K_exact_metric_name)
        \/ DictGet(j.val, K_exact_metric_name) \in {PyNone, PyStr(<<>>)}

\* C3: when the locator completion raises or gives no usable name, the exact metric
\* name is user_outcome verbatim, the execution goes on to the Stage 2 query with
\* user_outcome, the scoop completion is made once that retrieval yields evidence,
\* and the only way the call then raises is from the Stage 2 retrieval itself.
C3_LocatorFallbackRunsStage2 ==
  (Len(calls) >= 2 /\ LocatorFellBack(calls[2].out)) =>
    /\ exact_metric_name = PyStr(user_outcome_of_interest)
    /\ xpc \in {"anchor_query", "specific_query", "scoop", "done"}
    /\ xpc # "anchor_query" =>
         /\ Len(calls) >= 3
         /\ calls[3].op = "query"
         /\ calls[3].filter = ExtractorFilter(source_url)
         /\ calls[3].text = user_outcome_of_interest
    /\ (xpc = "done" /\ context_chunks_for_extractor # <<>>) =>
         /\ LastCall.op = "invoke"
         /\ LastCall.prompt = "scoop"
         /\ ~extract_result.raised
    /\ (xpc = "done" /\ extract_result.raised) =>
         /\ LastCall.op = "query"
         /\ LastCall.raised \/ LastCall.n = 0

C3_Witness ==
  /\ xpc = "done"
  /\ Len(calls) = 4
  /\ ~calls[2].out.raised
  /\ calls[2].out.ret[1].s = LocNull
  /\ calls[4].op = "invoke"
  /\ extract_result.ret[1] = PyStr(Strip(ScoopData))

\* C4 as stated: an execution that has retrieved its Stage 2 evidence made two Stage 2
\* queries, one with user_outcome and one with exact_metric_name.
C4_AlwaysTwoQueries ==
  xpc = "scoop" =>
    /\ Len(Stage2Queries) = 2
    /\ Stage2Queries[1].text = user_outcome_of_interest
    /\ Stage2Queries[2].text = exact_metric_name.s

\* C4, amended: an execution whose Stage 2 retrieval ran made the anchor query with
\* user_outcome, followed by the exact-name query exactly when exact_metric_name
\* differs from user_outcome ignoring case; otherwise the anchor query is the only one.
C4_SpecificQueryIffNamesDiffer ==
  Stage2Retrieved =>
    /\ exact_metric_name.k = "str"
    /\ [i \in 1..Len(Stage2Queries) |-> Stage2Queries[i].text] =
         IF Lower(exact_metric_name.s) # Lower(user_outcome_of_interest)
         THEN <<user_outcome_of_interest, exact_metric_name.s>>
         ELSE <<user_outcome_of_interest>>
    /\ \A i \in 1..Len(Stage2Queries) : Stage2Queries[i].k = K_EXTRACTOR

C4_Witness ==
  /\ xpc = "scoop"
  /\ Len(Stage2Queries) = 2
  /\ Stage2Queries[2].text # user_outcome_of_interest
  /\ chunks_specific # <<>>

\* C5: the evidence list holds no text twice, holds every text either query returned,
\* and lists the texts in the order of their first occurrence in the anchor results
\* followed by the exact-name results.
C5_EvidenceIsOrderedDedup ==
  Stage2Retrieved =>
    LET all == TextsOf(chunks_original \o chunks_specific)
        ev == TextsOf(context_chunks_for_extractor)
        First(t) == CHOOSE i \in 1..Len(all) : all[i] = t /\ \A j \in 1..(i - 1) : all[j] # t
    IN /\ \A i, j \in 1..Len(ev) : ev[i] = ev[j] => i = j
       /\ Range(ev) = Range(all)
       /\ \A i, j \in 1..Len(ev) : i < j => First(ev[i]) < First(ev[j])

C5_Witness ==
  /\ xpc = "scoop"
  /\ Len(chunks_original) = 2
  /\ Len(chunks_specific) = 2
  /\ chunks_specific[1].page_content = chunks_original[2].page_content
  /\ chunks_original[1].page_content # chunks_original[2].page_content
  /\ Len(context_chunks_for_extractor) = 2

\* C6: when the Stage 1 query (source = X, section in {Outcomes, Results, Abstract},
\* k = 5, the user's outcome as text) returns no chunks, the call has returned
\* "N/A (No relevant sections found)" with a status, and that query is the only call
\* made: no completion and no Stage 2 query.
C6_NoChunksShortCircuit ==
  calls # <<>> =>
    /\ calls[1].op = "query"
    /\ calls[1].filter = LocatorFilter(source_url)
    /\ calls[1].k = K_LOCATOR
    /\ calls[1].text = user_outcome_of_interest
    /\ (~calls[1].raised /\ calls[1].n = 0) =>
         /\ xpc = "done"
         /\ extract_result =
              Returned(<<PyStr(NA_NoRelevantSections), PyStr(S_ExtractionComplete)>>)
         /\ Len(calls) = 1

\* the store holds chunks of the source, none of them returned by Stage 1
C6_Witness ==
  /\ xpc = "done"
  /\ Len(calls) = 1
  /\ ~calls[1].raised
  /\ calls[1].n = 0
  /\ Matching(vector_store.docs, ExtractorFilter(source_url)) # {}
  /\ extract_result.ret[1].s = NA_NoRelevantSections

\* C26: extract_outcome_from_doc returns a pair (value, status) on every path on which
\* it returns, a missing vector store, a missing language model and an empty Stage 2
\* retrieval included, so that a caller unpacking two values never fails on the arity.
C26_AlwaysReturnsPair ==
  (xpc = "done" /\ ~extract_result.raised) => Len(extract_result.ret) = 2

(***************************************************************************)
(* Properties of generate_outcome_table (SpecTable)                        *)
(***************************************************************************)
\* the sources of the list that the loop does not skip at line 532
TableSources == SelectSeq(unique_sources, LAMBDA u : ~IsClinicalTrials(u))

\* the sources of the rows of a table, in the order of the rows
RowSources(rows) == [n \in 1..Len(rows) |-> rows[n].source_document.s]

\* C2: in generate_outcome_table a failure while extracting or analysing one source
\* (an exception, or a None from extract_outcome_from_doc or analyze_outcome_data)
\* becomes that source's row: every source of the list that is not skipped gets its
\* row and the batch returns a table.
C2_FailureBecomesRow ==
  (tpc = "done" /\ SessionReady /\ TableSources # <<>>)
    => /\ ~table_result.raised
       /\ table_result.ret[1] = DataFrame(table_data)
       /\ RowSources(table_data) = TableSources

\* the three "N/A (...)" values extract_outcome_from_doc is written to return
Sentinels == {NA_NoRelevantSections, NA_NoDataFound, NA_ValueNotFound}

\* an evidence block that is a sentinel or blank text
SentinelOrBlank(block) ==
  block.k = "str" /\ (block.s \in Sentinels \/ Strip(block.s) = <<>>)

\* C27: a row of generate_outcome_table is marked "Data not found" (and its source not
\* analysed) only when the extraction returned an "N/A (...)" sentinel or blank text:
\* an evidence block of real verbatim data is analysed even when the copied text
\* contains the characters "N/A".
C27_OnlySentinelsSkipped ==
  \A n \in 1..Len(table_data) :
    table_data[n].outcome.s = DataNotFound => SentinelOrBlank(table_data[n].raw_data_scoop)

\* the sources of the index that are not ClinicalTrials.gov pages, sorted
IndexedPaperSources ==
  SortedTexts({ u \in {vector_store.docs[n].metadata.source : n \in 1..Len(vector_store.docs)} :
                  ~Contains(u, CT_GOV) })

\* the call has returned a table
OutcomeTableReturned ==
  tpc = "done" /\ ~table_result.raised /\ table_result.ret[1].k = "DataFrame"

\* C28: the table returned by generate_outcome_table has exactly one row per unique
\* source of the index whose URL does not contain "clinicaltrials.gov", in sorted
\* source order: a source whose extraction yields a sentinel has its row, a
\* ClinicalTrials.gov source has none.
C28_OneRowPerPaperSource ==
  OutcomeTableReturned => RowSources(table_result.ret[1].rows) = IndexedPaperSources

\* a table is returned for an index that holds a ClinicalTrials.gov source, with a row
\* whose extraction yielded a sentinel
C28_Witness ==
  /\ OutcomeTableReturned
  /\ \E n \in 1..Len(vector_store.docs) : Contains(vector_store.docs[n].metadata.source, CT_GOV)
  /\ \E n \in 1..Len(table_result.ret[1].rows) :
       /\ table_result.ret[1].rows[n].outcome.s = DataNotFound
       /\ table_result.ret[1].rows[n].raw_data_scoop.s \in Sentinels

(***************************************************************************)
(* Properties of analyze_outcome_data, called by generate_outcome_table    *)
(* (SpecTable)                                                             *)
(***************************************************************************)
\* the completions of one attempt
CallsOfAttempt(a) == SelectSeq(analyze_calls, LAMBDA c : c.attempt = a)

\* the places of the completions whose answer the quality check accepted
AcceptedCalls == {n \in 1..Len(analyze_calls) : analyze_calls[n].then = "return"}

\* the places of the completions whose answer was parsed and kept as a backup
BackupCalls == {n \in 1..Len(analyze_calls) : analyze_calls[n].then = "retry"}

\* at most 3 attempts of at most 2 completions each, the classifier's first
AttemptsBounded ==
  /\ \A n \in 1..Len(analyze_calls) : analyze_calls[n].attempt \in 0..(MAX_ATTEMPTS - 1)
  /\ \A a \in 0..(MAX_ATTEMPTS - 1) :
       /\ Len(CallsOfAttempt(a)) <= 2
       /\ Len(CallsOfAttempt(a)) >= 1 => CallsOfAttempt(a)[1].pass = "classifier"
       /\ Len(CallsOfAttempt(a)) = 2 => CallsOfAttempt(a)[2].pass = "extractor"
  /\ \A n \in 1..(Len(analyze_calls) - 1) :
       analyze_calls[n].attempt <= analyze_calls[n + 1].attempt

\* an accepted answer is returned at once: it is the last completion and the result
FirstAcceptedReturned ==
  \A n \in AcceptedCalls :
    /\ n = Len(analyze_calls)
    /\ apc = "done"
    /\ analyze_result = Returned(<<analyze_calls[n].analysis>>)

\* the function returned after its attempts, none of them accepted
ReturnedUnaccepted == apc = "done" /\ llm /\ AcceptedCalls = {}

\* C25 as stated: at most 3 attempts of at most 2 completions, the first accepted
\* attempt is returned without another attempt, and when no attempt passes the result
\* is that of the last attempt
C25_LastAttemptReturned ==
  /\ AttemptsBounded
  /\ FirstAcceptedReturned
  /\ ReturnedUnaccepted =>
       LET last == analyze_calls[Len(analyze_calls)]
       IN /\ last.attempt = MAX_ATTEMPTS - 1
          /\ last.then = "retry"
          /\ analyze_result = Returned(<<last.analysis>>)

\* C25: at most 3 attempts of at most 2 completions, the first accepted attempt is
\* returned without another attempt, and when no attempt passes the result is the
\* answer of the last attempt that parsed one, or the default "N/A" record when no
\* attempt did
C25_LastParsedAttemptReturned ==
  /\ AttemptsBounded
  /\ FirstAcceptedReturned
  /\ ReturnedUnaccepted =>
       /\ analyze_calls[Len(analyze_calls)].attempt = MAX_ATTEMPTS - 1
       /\ IF BackupCalls = {} THEN analyze_result = Returned(<<DefaultResult>>)
          ELSE LET n == CHOOSE x \in BackupCalls : \A y \in BackupCalls : y <= x
               IN analyze_result = Returned(<<analyze_calls[n].analysis>>)

\* the third attempt raised after two attempts with different rejected answers
C25_Witness ==
  /\ ReturnedUnaccepted
  /\ analyze_calls[Len(analyze_calls)].then = "raise"
  /\ Cardinality({analyze_calls[n].analysis : n \in BackupCalls}) = 2

\* C30: every accepted result has a placebo_data string that is not empty and holds
\* none of "no placebo", "n/a", "none", case ignored; an answer with no placebo_data
\* field is never accepted
C30_AcceptedHasPlaceboData ==
  (apc = "done" /\ AcceptedCalls # {}) =>
    LET accepted == analyze_result.ret[1]
    IN /\ HasKey(accepted, K_placebo_data)
       /\ DictGet(accepted, K_placebo_data).k = "str"
       /\ DictGet(accepted, K_placebo_data).s # <<>>
       /\ \A bad \in {BadNoPlacebo, BadNA, BadNone} :
            ~Contains(Lower(DictGet(accepted, K_placebo_data).s), bad)

(***************************************************************************)
(* Properties of discover_metrics_in_doc (SpecDiscover)                    *)
(***************************************************************************)
\* No text content found
NoTextContentFound == <<"N","o"," ","t","e","x","t"," ","c","o","n","t","e","n","t"," ","f",
  "o","u","n","d">>

\* Sample Size
T_SampleSize == <<"S","a","m","p","l","e"," ","S","i","z","e">>

\* 42
T_42 == <<"4","2">>


\* the completion the call received, when it asked for one
DiscoverCompletion == discover_calls[Len(discover_calls)].out

\* the chunks the store holds for the source of the call
SourceChunks ==
  SelectSeq(vector_store.docs, LAMBDA d : d.metadata.source = discover_source_url)

\* C7: whatever the completion output and whatever the state of the session, the
\* first component discover_metrics_in_doc returns is a list whose elements are all
\* strings: never None, never a list holding a dict.
C7_AlwaysListOfStrings ==
  dpc = "done"
    => /\ ~discover_result.raised
       /\ discover_result.ret[1].k = "list"
       /\ \A n \in 1..Len(discover_result.ret[1].items) :
            discover_result.ret[1].items[n].k = "str"

\* C8: for the completion 'The answer is {"metrics": ["Sample Size", 42]}', a JSON
\* object preceded by prose, discover_metrics_in_doc returns the metrics of the
\* embedded object coerced to strings: ["Sample Size", "42"].
C8_ProseWrappedJsonExtracted ==
  (dpc = "done" /\ discover_calls # <<>> /\ DiscoverCompletion = Returned(<<PyStr(DiscWrapped)>>))
    => discover_result.ret[1] = PyList(<<PyStr(T_SampleSize), PyStr(T_42)>>)

\* C9: when the store holds no chunk text for the source, discover_metrics_in_doc
\* returns an empty list with a status that begins "No text content found", and has
\* made no completion call.
C9_NoTextNoCompletion ==
  (dpc = "done" /\ SessionReady /\ SourceChunks = <<>>)
    => /\ discover_result.ret[1] = PyList(<<>>)
       /\ SubSeq(discover_result.ret[2].s, 1, Len(NoTextContentFound)) = NoTextContentFound
       /\ discover_calls = <<>>

\* a call about a source the store, which holds other documents, has no chunk of
C9_Witness ==
  /\ dpc = "done"
  /\ SessionReady
  /\ vector_store.docs # <<>>
  /\ SourceChunks = <<>>
  /\ discover_result = Returned(<<PyList(<<>>), PyStr(S_NoTextContent)>>)
  /\ discover_calls = <<>>

\* the completion of the call, parsed as JSON
ParsedCompletion == JsonLoads(DiscoverCompletion.ret[1].s)

\* the completion is a JSON object whose "metrics" is a list that is not empty
MetricsListGiven ==
  /\ dpc = "done"
  /\ discover_calls # <<>>
  /\ ~DiscoverCompletion.raised
  /\ ParsedCompletion.ok
  /\ ParsedCompletion.val.k = "dict"
  /\ HasKey(ParsedCompletion.val, K_metrics)
  /\ DictGet(ParsedCompletion.val, K_metrics).k = "list"
  /\ DictGet(ParsedCompletion.val, K_metrics).items # <<>>

\* the string the claim gives for an element of the list; an object with no key at all
\* has no first value and is its string form
CoercedElement(e) ==
  IF e.k = "str" THEN e.s
  ELSE IF e.k = "dict" /\ HasKey(e, K_metric) THEN Str(DictGet(e, K_metric))
  ELSE IF e.k = "dict" /\ e.items # <<>> THEN Str(FirstValue(e))
  ELSE Str(e)

\* C23: for a completion that parses as JSON with a non-empty metrics list, the call
\* returns a list of the same length and order: a string is itself, an object with a
\* "metric" key the string of that value, an object without it the string of its first
\* value, any other element its string form
C23_MetricsCoercedInOrder ==
  MetricsListGiven =>
    LET metrics == DictGet(ParsedCompletion.val, K_metrics).items
    IN discover_result.ret[1]
         = PyList([n \in 1..Len(metrics) |-> PyStr(CoercedElement(metrics[n]))])

\* the list held an object with a "metric" key, objects without it, a list and null
C23_Witness ==
  /\ MetricsListGiven
  /\ DiscoverCompletion = Returned(<<PyStr(DiscObjects)>>)
  /\ Len(discover_result.ret[1].items) = 5

(***************************************************************************)
(* Properties of discover_and_normalize_metrics_from_library (SpecLibrary) *)
(***************************************************************************)
\* the completion _normalize_metrics received
NormalizerCompletion == library_calls[Len(library_calls)].out

\* the raw names of the documents, each with the number of documents that report it
RawCounts(per_doc) ==
  LET in_doc(n) == {per_doc[n].metrics[k].s : k \in 1..Len(per_doc[n].metrics)}
      docs_with(m) == {n \in 1..Len(per_doc) : m \in in_doc(n)}
  IN {[metric_name |-> m, found_in_docs |-> Cardinality(docs_with(m))] :
        m \in UNION {in_doc(n) : n \in 1..Len(per_doc)}}

\* the names and counts a table reports
ReportedCounts(table) ==
  {[metric_name |-> table.rows[n].metric_name,
    found_in_docs |-> table.rows[n].found_in_docs] : n \in 1..Len(table.rows)}

\* C10: when the normalizer's completion output fails to parse as JSON,
\* discover_and_normalize_metrics_from_library does not crash and skips the
\* normalization: the table it returns reports the raw metric names of the documents
\* with their counts.
C10_ParseFailureReportsRawCounts ==
  (/\ lpc = "done"
   /\ library_calls # <<>>
   /\ ~NormalizerCompletion.raised
   /\ ~JsonLoads(NormalizerCompletion.ret[1].s).ok)
    => /\ ~library_result.raised
       /\ library_result.ret[1].k = "DataFrame"
       /\ ReportedCounts(library_result.ret[1]) = RawCounts(raw_metrics_per_doc)

\* Baseline BMI
T_BaselineBMI == <<"B","a","s","e","l","i","n","e"," ","B","M","I">>

\* Mean Age
T_MeanAge == <<"M","e","a","n"," ","A","g","e">>

\* Body Mass Index
T_BodyMassIndex == <<"B","o","d","y"," ","M","a","s","s"," ","I","n","d","e","x">>


\* what _normalize_metrics made of its completion
NormalizedMap == normalize_metrics(NormalizerCompletion)

\* the table the function returned, when it returned one with rows
TableReturned ==
  /\ lpc = "done"
  /\ ~library_result.raised
  /\ library_result.ret[1].k = "DataFrame"
  /\ library_result.ret[1].rows # <<>>

\* the documents with at least one raw name that the normalizer's map sends, its
\* case ignored, to the canonical name
DocsTouching(name) ==
  LET synonym_to_canonical == SynonymMap(SynonymPairs(DictItems(NormalizedMap)).pairs)
  IN {n \in 1..Len(raw_metrics_per_doc) :
        \E k \in 1..Len(raw_metrics_per_doc[n].metrics) :
          LET raw == Lower(raw_metrics_per_doc[n].metrics[k].s)
          IN raw \in DOMAIN synonym_to_canonical /\ synonym_to_canonical[raw] = name}

\* C11: in the aggregation a document adds at most 1 to the count of a canonical
\* metric, however many of its raw names map to it: the count of a canonical metric is
\* the number of documents that touch it, hence at most the number of documents, and
\* every prevalence is at most 100.
C11_DocumentCountsOnce ==
  TableReturned =>
    \A n \in 1..Len(library_result.ret[1].rows) :
      LET row == library_result.ret[1].rows[n]
      IN /\ row.found_in_docs = Cardinality(DocsTouching(row.metric_name))
         /\ row.found_in_docs <= Len(library_sources)
         /\ row.prevalence = [num |-> row.found_in_docs * 100, den |-> Len(library_sources)]
         /\ row.prevalence.num <= 100 * row.prevalence.den

\* one source reports "BMI", "Body Mass Index" and "Age", normalized under two
\* canonical names: each canonical metric has count 1
C11_Witness ==
  /\ TableReturned
  /\ Len(raw_metrics_per_doc) = 1
  /\ raw_metrics_per_doc[1].metrics =
       <<PyStr(OutcomeBMI), PyStr(T_BodyMassIndex), PyStr(OutcomeAge)>>
  /\ ReportedCounts(library_result.ret[1]) =
       { [metric_name |-> T_BaselineBMI, found_in_docs |-> 1],
         [metric_name |-> T_MeanAge, found_in_docs |-> 1] }

\* the entries of the normalizer's map that list the raw name among their synonyms,
\* case ignored
EntriesListing(raw) ==
  {n \in 1..Len(NormalizedMap.items) :
     \E k \in 1..Len(NormalizedMap.items[n].val.items) :
       Lower(NormalizedMap.items[n].val.items[k].s) = Lower(raw)}

\* the completion was a JSON object of lists of strings
WellFormedMap ==
  /\ NormalizedMap.k = "dict"
  /\ \A n \in 1..Len(NormalizedMap.items) :
       /\ NormalizedMap.items[n].val.k = "list"
       /\ \A k \in 1..Len(NormalizedMap.items[n].val.items) :
            NormalizedMap.items[n].val.items[k].k = "str"

\* C12: after normalization every raw metric name that was fed to the normalizer
\* belongs, case ignored, to exactly one canonical entry of the map used for
\* counting: none is dropped and none is listed under two canonical names.
C12_SynonymsPartitionRawNames ==
  (lpc = "done" /\ library_calls # <<>> /\ WellFormedMap)
    => \A n \in 1..Len(library_calls[1].prompt) :
         Cardinality(EntriesListing(library_calls[1].prompt[n])) = 1


\* the canonical names of the normalizer's map that a raw name of a document maps to
CountedNames ==
  LET synonym_to_canonical == SynonymMap(SynonymPairs(DictItems(NormalizedMap)).pairs)
  IN {name \in {synonym_to_canonical[raw] : raw \in DOMAIN synonym_to_canonical} :
        DocsTouching(name) # {}}

\* C24: the table lists each counted canonical metric once, with prevalence = count /
\* (number of unique sources of the index, those with no discovered metric included)
\* x 100, and its rows are in non-increasing order of count
C24_TableCountedAndSorted ==
  TableReturned =>
    LET rows == library_result.ret[1].rows
    IN /\ \A a, b \in 1..Len(rows) : a # b => rows[a].metric_name # rows[b].metric_name
       /\ {rows[n].metric_name : n \in 1..Len(rows)} = CountedNames
       /\ \A n \in 1..Len(rows) :
            rows[n].prevalence =
              [num |-> rows[n].found_in_docs * 100, den |-> Len(library_sources)]
       /\ \A a, b \in 1..Len(rows) :
            a < b => rows[a].found_in_docs >= rows[b].found_in_docs

\* a table whose rows have different counts
C24_Witness ==
  /\ TableReturned
  /\ Len(library_result.ret[1].rows) = 2
  /\ library_result.ret[1].rows[1].found_in_docs = 2
  /\ library_result.ret[1].rows[2].found_in_docs = 1

\* a table over two sources, one of them with no discovered metric
C24_SourceWithoutMetric ==
  /\ TableReturned
  /\ Len(library_sources) = 2
  /\ Len(raw_metrics_per_doc) = 1

(***************************************************************************)
(* Claims about find_relevant_table_titles (SpecFind)                      *)
(***************************************************************************)
\* the call returned a list of titles
TitlesReturned ==
  fpc = "done" /\ ~find_result.raised /\ find_result.ret[1] # PyNone

\* the titles of the list the call returned
ReturnedTitles ==
  [n \in 1..Len(find_result.ret[1].items) |-> find_result.ret[1].items[n].s]

\* the status message the call returned
FindMessage == find_result.ret[2].s

\* the titles at the first three in-range numbers of the response, in response order
FirstThreeInRange ==
  LET numbers == InRangeNumbers(response_content, all_titles)
  IN [n \in 1..Min(3, Len(numbers)) |-> all_titles[numbers[n]]]

\* C13: when the response is a comma-separated list of integers, the call returns the
\* titles at the in-range 1-based indices, in response order, the first three at most:
\* the 2nd and the 5th of six titles for the response "2, 5, 9"
C13_NumericReturnsFirstThree ==
  (TitlesReturned /\ strategies = <<"numeric">>) => ReturnedTitles = FirstThreeInRange

\* C14: whichever method produces the result, every element of the returned list is an
\* element of all_titles
C14_OnlyGivenTitles ==
  TitlesReturned => \A n \in 1..Len(ReturnedTitles) : ReturnedTitles[n] \in Range(all_titles)

\* the fuzzy method returned a title that carries a "[..] " prefix
C14_Witness ==
  /\ TitlesReturned
  /\ FindMessage = S_UsedFuzzy
  /\ Len(ReturnedTitles) = 1
  /\ CleanTitle(ReturnedTitles[1]) # ReturnedTitles[1]

\* the four methods in the order of the code
Cascade == <<"numeric", "regex", "fuzzy", "keyword">>

\* the methods tried so far are the first ones of the cascade, or the keyword matching
\* of the exception handler alone
TriedInOrder ==
  \/ strategies = <<"fallback">>
  \/ Len(strategies) <= Len(Cascade) /\ strategies = SubSeq(Cascade, 1, Len(strategies))

\* the message of a returned result is that of the last method tried
ResultOfLastTried ==
  (TitlesReturned /\ strategies # <<>>) =>
    LET last == strategies[Len(strategies)]
    IN /\ last = "numeric" => FindMessage = S_TitlesIdentified
       /\ last = "regex" => FindMessage = S_TitleIdentified
       /\ last = "fuzzy" => FindMessage = S_UsedFuzzy
       /\ last = "keyword" => FindMessage \in {S_UsedKeyword, S_NoRelevantTitles}
       /\ last = "fallback" => FindMessage \in {S_UsedKeywordAfterError, S_NoMatchesEvenKeyword}

\* C15 as stated: the methods are tried in the order numeric, regex, fuzzy, keyword, the
\* result is that of the first that succeeds, and the regex method is attempted only
\* when the strict parsing of the response as integers fails
C15_RegexOnlyAfterParseFailure ==
  /\ TriedInOrder
  /\ ResultOfLastTried
  /\ "regex" \in Range(strategies) => StrictParseFails(response_content)

\* C15: the methods are tried in the order numeric, regex, fuzzy, keyword, the result is
\* that of the first that succeeds, and the regex method is attempted exactly when the
\* numeric method selected no title: the strict parsing failed, or it succeeded and no
\* parsed number is an index of all_titles
C15_RegexAfterNumericSelectsNothing ==
  /\ TriedInOrder
  /\ ResultOfLastTried
  /\ (fpc = "regex" \/ "regex" \in Range(strategies)) =>
       \/ StrictParseFails(response_content)
       \/ InRangeNumbers(response_content, all_titles) = <<>>
  /\ (fpc = "done" /\ strategies = <<"numeric">>) =>
       /\ ~StrictParseFails(response_content)
       /\ InRangeNumbers(response_content, all_titles) # <<>>

\* the regex method gave the result for a response that parses as an integer
C15_Witness ==
  /\ TitlesReturned
  /\ strategies = <<"numeric", "regex">>
  /\ ~StrictParseFails(response_content)

\* the response is one integer that is no 1-based index of all_titles
OutOfRangeAnswer ==
  /\ Len(NumberTokens(response_content)) = 1
  /\ IntOf(response_content).ok
  /\ IntOf(response_content).n \notin 1..Len(all_titles)

\* the numeric method or the regex method gave the result
SelectedByNumber ==
  TitlesReturned /\ FindMessage \in {S_TitlesIdentified, S_TitleIdentified}

\* C29 as stated: an index of the response that is zero, negative or greater than the
\* number of titles never selects a title, by the numeric method or by the regex method
C29_OutOfRangeNeverSelects == OutOfRangeAnswer => ~SelectedByNumber

\* C29: the numeric method and the regex method return the title at a 1-based position
\* that is written in the response, never one reached by counting from the end, and a
\* response that is zero or greater than the number of titles selects no title; the
\* digits of a negative number are read as an index by the regex method
C29_NoWrapAround ==
  /\ SelectedByNumber =>
       \E k \in 1..Len(all_titles) :
         /\ ReturnedTitles = <<all_titles[k]>>
         /\ Contains(response_content, NatStr(k))
  /\ (OutOfRangeAnswer /\ IntOf(response_content).n >= 0) => ~SelectedByNumber

\* the regex method selected the title at the digits of a negative number
C29_Witness ==
  /\ SelectedByNumber
  /\ OutOfRangeAnswer
  /\ IntOf(response_content).n < 0
  /\ ReturnedTitles = <<all_titles[0 - IntOf(response_content).n]>>

(***************************************************************************)
(* Claims about chunk_text (SpecChunk)                                     *)
(***************************************************************************)
\* the paragraphs of a text that line 345 does not skip
NonBlankParagraphs(text) ==
  SelectSeq(SplitSub(text, ParaSep), LAMBDA p : Strip(p) # <<>>)

RECURSIVE Glue(_)
\* the paragraphs one after the other, the separator after each
Glue(paras) ==
  IF paras = <<>> THEN <<>> ELSE Head(paras) \o ParaSep \o Glue(Tail(paras))

\* the text of the chunk is that of consecutive non-blank paragraphs of the text
BuiltFrom(chunk, text) ==
  LET paras == NonBlankParagraphs(text)
  IN \E a \in 1..Len(paras), b \in 1..Len(paras) :
       a <= b /\ chunk.text = Strip(Glue(SubSeq(paras, a, b)))

\* C16: every chunk is built from the text of one section and carries the title of that
\* section; it contains no paragraph of a section of another title
C16_ChunkOfOneSection ==
  \A n \in 1..Len(all_chunks) :
    /\ \E k \in 1..Len(sections_data) :
         /\ sections_data[k][1] = all_chunks[n].section
         /\ BuiltFrom(all_chunks[n], sections_data[k][2])
    /\ \A j \in 1..Len(sections_data) :
         sections_data[j][1] # all_chunks[n].section =>
           \A p \in Range(NonBlankParagraphs(sections_data[j][2])) :
             ~Contains(all_chunks[n].text, Strip(p))

\* two sections of different titles have both given chunks
C16_Witness ==
  /\ chunk_pc = "done"
  /\ Len(sections_data) = 2
  /\ sections_data[1][1] # sections_data[2][1]
  /\ \A k \in 1..2 : \E n \in 1..Len(all_chunks) : all_chunks[n].section = sections_data[k][1]

RECURSIVE Flatten(_)
\* the lists of a list, one after the other
Flatten(lists) ==
  IF lists = <<>> THEN <<>> ELSE Head(lists) \o Flatten(Tail(lists))

\* the paragraphs of the chunks tagged with the title, in chunk order
ParagraphsOfChunks(title) ==
  LET chunks == SelectSeq(all_chunks, LAMBDA c : c.section = title)
  IN Flatten([n \in 1..Len(chunks) |-> SplitSub(chunks[n].text, ParaSep)])

\* the non-blank paragraphs of the sections of the title, in their original order
SectionParagraphs(title) ==
  LET sections == SelectSeq(sections_data, LAMBDA s : s[1] = title)
  IN Flatten([n \in 1..Len(sections) |-> NonBlankParagraphs(sections[n][2])])

\* every text of the list without its leading and trailing whitespace
Stripped(texts) == [n \in 1..Len(texts) |-> Strip(texts[n])]

\* the titles of the call
SectionTitles == {sections_data[k][1] : k \in 1..Len(sections_data)}

\* C17 as stated: the paragraphs of the chunks of a section, in chunk order, are exactly
\* the non-blank paragraphs of the section in their original order
C17_ParagraphsKeptExactly ==
  chunk_pc = "done" =>
    \A title \in SectionTitles : ParagraphsOfChunks(title) = SectionParagraphs(title)

\* C17: the paragraphs of the chunks of a section, in chunk order, are the non-blank
\* paragraphs of the section in their original order, none lost, duplicated or
\* reordered, up to the whitespace at the start and the end of a paragraph
C17_ParagraphsKeptUpToWhitespace ==
  chunk_pc = "done" =>
    \A title \in SectionTitles :
      Stripped(ParagraphsOfChunks(title)) = Stripped(SectionParagraphs(title))

\* a section of two chunks or more, one of which lost the whitespace of a paragraph
C17_Witness ==
  /\ chunk_pc = "done"
  /\ \E title \in SectionTitles :
       /\ Len(SelectSeq(all_chunks, LAMBDA c : c.section = title)) >= 2
       /\ ParagraphsOfChunks(title) # SectionParagraphs(title)

\* C18: every chunk has a text of chunk_size characters at most, even for a section of
\* a single paragraph longer than chunk_size
C18_ChunksWithinSize ==
  \A n \in 1..Len(all_chunks) : Len(all_chunks[n].text) <= chunk_size

(***************************************************************************)
(* Claims about the embedding functions (SpecEmbed) and about              *)
(* create_vector_store (SpecCreate)                                        *)
(***************************************************************************)
\* the embedding capability failed: a request error, a body that is not JSON, or a JSON
\* value that is not a list of vectors
CapabilityFailed(response) ==
  \/ response.kind \in {"request_error", "non_json"}
  \/ /\ response.kind = "json"
     /\ \/ response.json.k # "list"
        \/ \E n \in 1..Len(response.json.items) : response.json.items[n].k # "list"

\* the output of the capability is malformed for a batch of n texts: it is a list of
\* vectors, but not of n vectors
Malformed(response, n) ==
  /\ response.kind = "json"
  /\ ~CapabilityFailed(response)
  /\ Len(response.json.items) # n

\* C19: when the embedding capability fails or returns malformed output during
\* create_vector_store, the call reports failure and the collection holds exactly the
\* documents it held before the call
C19_InsertAllOrNothing ==
  [][(create_pc = "add"
        /\ \/ CapabilityFailed(create_response')
           \/ Malformed(create_response', Len(text_chunks)))
       => /\ collection' = collection
          /\ create_pc' = "done"
          /\ create_result'.ret[1] = PyNone]_vars

\* C21: every item that the insert operation stored in the index has a source field
\* and a section field in its metadata, the section being the tag chunk_text gave the
\* chunk, so that the Stage 1 filter (section in {Outcomes, Results, Abstract}) can
\* match stored chunks.
C21_StoredHasSourceAndSection ==
  \A n \in 1..Len(collection) :
    {"source", "section"} \subseteq DOMAIN collection[n].metadata

\* C20: a failure of the embedding capability reaches the caller of embed_documents
\* and of embed_query as an exception or as a value that is no embedding: never as an
\* empty vector or an empty list
C20_FailureDistinguishable ==
  (embed_pc = "done" /\ CapabilityFailed(api_response)) =>
    \/ embed_result.raised
    \/ embed_result.ret[1].k # "list"

(***************************************************************************)
(* Properties of the batch over the prepared links (SpecBatch)             *)
(***************************************************************************)
\* the places of the links for which process_single_link failed
FailedPlaces == {n \in 1..Len(process_log) : ProcessFailed(process_log[n])}

\* the places of the links for which an insert was attempted
InsertedPlaces == {insert_calls[n].place : n \in 1..Len(insert_calls)}

\* C22: in the batch over the prepared links a link for which process_single_link
\* fails (the fetch returned nothing, the URL is not recognized or holds no id) is
\* skipped: no insert into the index is attempted for it, it is not counted as a
\* success, and the loop goes on with the next link.
C22_FailedLinkSkipped ==
  /\ FailedPlaces \cap InsertedPlaces = {}
  /\ success_count <= Len(process_log) - Cardinality(FailedPlaces)
  /\ (batch_pc = "done" /\ FailedPlaces # {}) =>
        (~batch_result.raised /\ Len(process_log) = Len(links))

====
